---- MODULE Spec2Model ----
(***************************************************************************)
(* Usage monitoring of the Coding-Assistant workbench.                     *)
(*                                                                         *)
(* Three parts are modelled:                                               *)
(*   - the refresh/cache state machine of the usage page                   *)
(*     (pages/UsageMonitorPage), specification Spec;                       *)
(*   - the usage aggregator (store/usageAggregator with store/logParser),  *)
(*     specifications SpecAgg and SpecRepeat (Codex sessions), SpecWindow  *)
(*     and SpecAnyPeriod (time windows, arguments), SpecView (view data),  *)
(*     SpecMalformed (lines that do not parse), SpecNames (model names)    *)
(*     and SpecSessions (lines without a timestamp);                       *)
(*   - the log scanner of the main process (scanLogFilesInRange behind     *)
(*     handleScanLogFiles), specification SpecScanner, and the aggregator  *)
(*     reading the log directories through it, specification SpecDisk.     *)
(*                                                                         *)
(* Instants are whole minutes counted from a UTC midnight.  Civil time is  *)
(* UTC+8 (Asia/Shanghai, no daylight saving).  The page's `loading` flag   *)
(* is written by its handlers and read nowhere; it is left out.            *)
(***************************************************************************)
EXTENDS Integers, Sequences, FiniteSets, TLC

VARIABLES
    now,              \* the wall clock (new Date())
    hasApi,           \* window.electronAPI?.scanLogFiles is present
    currentPeriod,    \* useState: the displayed period
    periodCache,      \* useState: the three cache slots
    error,            \* useState: the error banner
    refreshingMap,    \* useState: period -> refreshing
    periodCacheRef,   \* useRef mirror of periodCache
    currentPeriodRef, \* useRef mirror of currentPeriod
    refreshingSetRef, \* useRef(new Set()): the single-flight guard
    storage,          \* localStorage[USAGE_CACHE_STORAGE_KEY]
    inflight,         \* per period, the aggregateUsage calls awaiting their result
    bootPc,           \* position of the bootstrap effect
    lastEvent,        \* the handler that ran last, and which of its calls returned early
    aggPc,            \* position of one aggregateUsage call (aggregator part)
    aggPeriod,        \* its argument
    scan,             \* what the scanner returns for the two log sources
    baseScan,         \* the scanner result before any line was repeated
    sessionSnapshots, \* scanCodexLogs: the per-session slots after the scan
    codexRecords,     \* scanCodexLogs: the records it returned
    scanRequests,     \* the calls of window.electronAPI.scanLogFiles it made
    disk,             \* the entries under the two log directories
    scanCall,         \* one call of scanLogFilesInRange and what it returned
    aggResult         \* the value aggregateUsage returned

pageVars == <<now, hasApi, currentPeriod, periodCache, error,
              refreshingMap, periodCacheRef, currentPeriodRef, refreshingSetRef,
              storage, inflight, bootPc, lastEvent>>
aggVars == <<aggPc, aggPeriod, scan, baseScan, sessionSnapshots, codexRecords,
             scanRequests, disk, scanCall, aggResult>>
vars == <<now, hasApi, currentPeriod, periodCache, error,
          refreshingMap, periodCacheRef, currentPeriodRef, refreshingSetRef,
          storage, inflight, bootPc, lastEvent, aggPc, aggPeriod, scan, baseScan,
          sessionSnapshots, codexRecords, scanRequests, disk, scanCall,
          aggResult>>

----------------------------------------------------------------------------
(* Program constants *)

PERIODS == {"today", "week", "month"}

\* 5 * 60 * 1000 ms, in minutes
TODAY_REFRESH_INTERVAL == 5

DAILY_REFRESH_MINUTE == 5

\* the "+08:00" of the civil midnight, in minutes
BeijingOffset == 480

\* setUTCDate(getUTCDate() - 1) moves an instant by one day
MinutesPerDay == 1440

WeekDays == 7

MonthDays == 30

----------------------------------------------------------------------------
(* Bounds of the model *)

\* the clock starts this many minutes before a civil midnight
LeadMinutes == 1

\* a cache left in localStorage by an earlier run is this many minutes old
PrevRunAge == 2

\* calls of one period the model keeps in flight at most (only a broken guard
\* gets there)
MaxInflight == 2

\* a scan returns before the clock has moved on this many times
MaxFlightTicks == 1

\* lines of one scanned log file, before any line is repeated
MaxLines == 2

\* lines of all scanned Codex files together, before any line is repeated
MaxScanLines == 3

\* snapshot lines repeated in one scan
MaxRepeats == 1

\* log lines of the scan whose timestamps stand at the window boundaries
MaxWindowLines == 1

\* lines that yield no record, in one scan
MaxBadLines == 1

\* pieces a model name is made of
MaxNameParts == 3

\* entries under a log directory
MaxDiskFiles == 3

\* the largest options.maxFiles below the default
MaxCap == 2

\* log files on disk when the aggregator reads them through the scanner
MaxLogFiles == 2

\* models named by the lines of the scan whose view data is generated
ViewModels == 7

Midnight == MinutesPerDay - BeijingOffset
StartNow == Midnight - LeadMinutes

\* The instants at which the model looks at the clock: before the civil
\* midnight, at it, and around the two refresh thresholds after it.
Instants ==
    {StartNow, Midnight,
     Midnight + TODAY_REFRESH_INTERVAL - 1, Midnight + TODAY_REFRESH_INTERVAL}

----------------------------------------------------------------------------
(* Civil time *)

getBeijingDateTimeParts(date) ==
    LET local == date + BeijingOffset
    IN  [day    |-> local \div MinutesPerDay,
         hour   |-> (local % MinutesPerDay) \div 60,
         minute |-> local % 60]

getBeijingDayKey(date) == getBeijingDateTimeParts(date).day

getBeijingDayStart(date) ==
    getBeijingDateTimeParts(date).day * MinutesPerDay - BeijingOffset

\* A batch key that changes at the civil midnight itself.
getDailyRefreshKeyAtMidnight(date) == getBeijingDayKey(date)

getDailyRefreshKey(date) ==
    LET parts == getBeijingDateTimeParts(date)
        dayStart == getBeijingDayStart(date)
    IN  IF parts.hour = 0 /\ parts.minute < DAILY_REFRESH_MINUTE
        THEN getBeijingDayKey(dayStart - MinutesPerDay)
        ELSE getBeijingDayKey(dayStart)

\* Windows of week and month that run on to the current instant.
getBeijingTimeWindowThroughNow(period, date) ==
    LET todayStart == getBeijingDayStart(date)
    IN  CASE period = "week"  -> [start |-> todayStart - WeekDays * MinutesPerDay,
                                  end   |-> date]
          [] period = "month" -> [start |-> todayStart - MonthDays * MinutesPerDay,
                                  end   |-> date]
          [] OTHER            -> [start |-> todayStart, end |-> date]

getBeijingTimeWindow(period, date) ==
    LET todayStart == getBeijingDayStart(date)
    IN  CASE period = "week"  -> [start |-> todayStart - WeekDays * MinutesPerDay,
                                  end   |-> todayStart]
          [] period = "month" -> [start |-> todayStart - MonthDays * MinutesPerDay,
                                  end   |-> todayStart]
          [] OTHER            -> [start |-> todayStart, end |-> date]

----------------------------------------------------------------------------
(* Cache entries *)

Undefined == -1

NullData == [period |-> "null", startTime |-> Undefined, endTime |-> Undefined]

EMPTY_USAGE_DATA == [period |-> "empty", startTime |-> Undefined, endTime |-> Undefined]

NullEntry == [data |-> NullData, computedAt |-> Undefined,
              dayKey |-> Undefined, dailyRefreshKey |-> Undefined]

HasData(entry) == entry.data # NullData

createEmptyCache == [p \in PERIODS |-> NullEntry]

MakeEntry(period, data, at) ==
    [data |-> data,
     computedAt |-> at,
     dayKey |-> IF period = "today" THEN getBeijingDayKey(at) ELSE Undefined,
     dailyRefreshKey |-> IF period # "today" THEN getDailyRefreshKey(at) ELSE Undefined]

ResultData(period, win) ==
    [period |-> period, startTime |-> win.start, endTime |-> win.end]

\* A today entry that is still fresh when exactly the interval has elapsed.
isTodayCacheFreshInclusive(entry, date) ==
    IF entry.computedAt = Undefined \/ entry.dayKey = Undefined THEN FALSE
    ELSE IF entry.dayKey # getBeijingDayKey(date) THEN FALSE
    ELSE (date - entry.computedAt) <= TODAY_REFRESH_INTERVAL

isTodayCacheFresh(entry, date) ==
    IF entry.computedAt = Undefined \/ entry.dayKey = Undefined THEN FALSE
    ELSE IF entry.dayKey # getBeijingDayKey(date) THEN FALSE
    ELSE (date - entry.computedAt) < TODAY_REFRESH_INTERVAL

isRangeCacheFresh(entry, date) ==
    IF entry.dailyRefreshKey = Undefined THEN FALSE
    ELSE entry.dailyRefreshKey = getDailyRefreshKey(date)

shouldRefreshPeriod(period, entry, date) ==
    IF ~HasData(entry) THEN TRUE
    ELSE IF period = "today" THEN ~isTodayCacheFresh(entry, date)
    ELSE ~isRangeCacheFresh(entry, date)

displayData == IF HasData(periodCache[currentPeriod])
               THEN periodCache[currentPeriod].data
               ELSE EMPTY_USAGE_DATA

----------------------------------------------------------------------------
(* The usage page: refreshPeriodData and its callers *)

NoError == "null"

FallbackMessage == "refresh failed, showing previous data"

\* result.error of a failure result; "" stands for a missing error field
ResultErrors == {"SCAN_FAILED", ""}

\* err.message of a rejected call
ThrowMessages == {"boom", ""}

RemoveAt(s, i) == SubSeq(s, 1, i - 1) \o SubSeq(s, i + 1, Len(s))

InflightOf(period) == Len(inflight[period])

\* What the synchronous part of refreshPeriodData reads and writes, threaded
\* through the calls one handler makes in a row.  guard and fresh collect the
\* periods whose call returned at the single-flight guard or at the
\* staleness test.
RefreshCtx ==
    [set |-> refreshingSetRef, map |-> refreshingMap,
     inflight |-> inflight, guard |-> {}, fresh |-> {}, started |-> {}]

\* refreshPeriodData without its single-flight guard.
refreshPeriodDataUnguarded(ctx, period, force) ==
    IF ~force /\ ~shouldRefreshPeriod(period, periodCacheRef[period], now)
    THEN [ctx EXCEPT !.fresh = @ \cup {period}]
    ELSE [ctx EXCEPT
            !.started = @ \cup {period},
            !.set = @ \cup {period},
            !.map[period] = TRUE,
            !.inflight[period] =
                Append(@, [age |-> 0, win |-> getBeijingTimeWindow(period, now)])]

\* refreshPeriodData whose guard lets a forced refresh through.
refreshPeriodDataForcedThrough(ctx, period, force) ==
    IF ~force /\ period \in ctx.set THEN [ctx EXCEPT !.guard = @ \cup {period}]
    ELSE refreshPeriodDataUnguarded(ctx, period, force)

\* refreshPeriodData up to its await: the guard, the staleness test, and the
\* start of aggregateUsage(period), whose window is computed at the call.
refreshPeriodData(ctx, period, force) ==
    IF period \in ctx.set THEN [ctx EXCEPT !.guard = @ \cup {period}]
    ELSE IF ~force /\ ~shouldRefreshPeriod(period, periodCacheRef[period], now)
    THEN [ctx EXCEPT !.fresh = @ \cup {period}]
    ELSE [ctx EXCEPT
            !.started = @ \cup {period},
            !.set = @ \cup {period},
            !.map[period] = TRUE,
            !.inflight[period] =
                Append(@, [age |-> 0, win |-> getBeijingTimeWindow(period, now)])]

\* What the calls of one handler did: returned at the guard, returned at the
\* staleness test, or started an aggregation.
Event(ctx) ==
    [guard |-> ctx.guard, fresh |-> ctx.fresh, started |-> ctx.started, failed |-> {}]

NoEvent == [guard |-> {}, fresh |-> {}, started |-> {}, failed |-> {}]

\* A recompute of `period` ended without a result.
FailedEvent(period) == [NoEvent EXCEPT !.failed = {period}]

ApplyCtx(ctx) ==
    /\ \A p \in PERIODS : Len(ctx.inflight[p]) <= MaxInflight
    /\ refreshingSetRef' = ctx.set
    /\ refreshingMap' = ctx.map
    /\ inflight' = ctx.inflight

\* The mount effect.  Without the scanner API the cache is filled with empty
\* data; otherwise the three periods are warmed up.
bootstrap ==
    /\ bootPc = "init"
    /\ IF ~hasApi
       THEN LET fallbackCache ==
                    [p \in PERIODS |-> MakeEntry(p, EMPTY_USAGE_DATA, now)]
            IN  /\ periodCache' = fallbackCache
                /\ periodCacheRef' = fallbackCache
                /\ storage' = fallbackCache
                /\ error' = NoError
                /\ bootPc' = "done"
                /\ lastEvent' = NoEvent
                /\ UNCHANGED <<refreshingSetRef, refreshingMap, inflight>>
       ELSE LET ctx1 == refreshPeriodData(RefreshCtx, "today", FALSE)
                ctx2 == refreshPeriodData(ctx1, "week", FALSE)
                ctx3 == refreshPeriodData(ctx2, "month", FALSE)
            IN  /\ ApplyCtx(ctx3)
                /\ error' = NoError
                /\ bootPc' = "done"
                /\ lastEvent' = Event(ctx3)
                /\ UNCHANGED <<periodCache, periodCacheRef, storage>>
    /\ UNCHANGED <<now, hasApi, currentPeriod, currentPeriodRef>>
    /\ UNCHANGED aggVars

\* The one-minute timer.
checkAutoRefresh ==
    /\ bootPc # "init"
    /\ LET ctx1 == refreshPeriodData(RefreshCtx, "today", FALSE)
           ctx2 == refreshPeriodData(ctx1, "week", FALSE)
           ctx3 == refreshPeriodData(ctx2, "month", FALSE)
       IN  /\ ApplyCtx(ctx3)
           /\ lastEvent' = Event(ctx3)
    /\ UNCHANGED <<now, hasApi, currentPeriod, periodCache, error, periodCacheRef,
                   currentPeriodRef, storage, bootPc>>
    /\ UNCHANGED aggVars

\* The retry button, which the page shows inside its error banner.
handleRefresh ==
    /\ bootPc # "init"
    /\ error # NoError
    /\ LET ctx1 == refreshPeriodData(RefreshCtx, currentPeriod, TRUE)
       IN  /\ ApplyCtx(ctx1)
           /\ lastEvent' = Event(ctx1)
    /\ UNCHANGED <<now, hasApi, currentPeriod, periodCache, error, periodCacheRef,
                   currentPeriodRef, storage, bootPc>>
    /\ UNCHANGED aggVars

\* A period switch that also recomputes the period switched to.
handlePeriodChangeRefreshing(period) ==
    /\ bootPc # "init"
    /\ period # currentPeriod
    /\ currentPeriod' = period
    /\ currentPeriodRef' = period
    /\ error' = NoError
    /\ LET ctx1 == refreshPeriodData(RefreshCtx, period, TRUE)
       IN  /\ ApplyCtx(ctx1)
           /\ lastEvent' = NoEvent
    /\ UNCHANGED <<now, hasApi, periodCache, periodCacheRef, storage, bootPc>>
    /\ UNCHANGED aggVars

\* A click on one of the three period buttons.
handlePeriodChange(period) ==
    /\ bootPc # "init"
    /\ IF period = currentPeriod
       THEN UNCHANGED <<currentPeriod, currentPeriodRef, error>>
       ELSE /\ currentPeriod' = period
            /\ currentPeriodRef' = period
            /\ error' = NoError
    /\ lastEvent' = NoEvent
    /\ UNCHANGED <<now, hasApi, periodCache, refreshingMap, periodCacheRef,
                   refreshingSetRef, storage, inflight, bootPc>>
    /\ UNCHANGED aggVars

\* An update that writes the data of the new entry into the entry in place.
updatePeriodCacheDataOnly(prev, period, entry) ==
    [prev EXCEPT ![period] = [@ EXCEPT !.data = entry.data]]

\* An update that builds the cache from the entry alone.
updatePeriodCacheFromEmpty(prev, period, entry) ==
    [createEmptyCache EXCEPT ![period] = entry]

\* updatePeriodCache: the functional update and the write to localStorage.
updatePeriodCache(prev, period, entry) == [prev EXCEPT ![period] = entry]

\* A failure path that drops the entry it could not replace.
cacheClearedOnFailure(prev, period) == [prev EXCEPT ![period] = NullEntry]

\* What a recompute does to the cache when it ends without a result.
cacheAfterFailure(prev, period) == prev

\* An end of the call that leaves the period in the single-flight guard.
FinallyKeepingGuard(period, i) ==
    /\ refreshingSetRef' = refreshingSetRef
    /\ refreshingMap' = [refreshingMap EXCEPT ![period] = FALSE]
    /\ inflight' = [inflight EXCEPT ![period] = RemoveAt(@, i)]

\* The finally block of refreshPeriodData.
Finally(period, i) ==
    /\ refreshingSetRef' = refreshingSetRef \ {period}
    /\ refreshingMap' = [refreshingMap EXCEPT ![period] = FALSE]
    /\ inflight' = [inflight EXCEPT ![period] = RemoveAt(@, i)]

\* aggregateUsage resolved with success: true.
refreshSucceeds(period, i) ==
    /\ i \in 1..Len(inflight[period])
    /\ LET c == inflight[period][i]
           entry == MakeEntry(period, ResultData(period, c.win), now)
           next == updatePeriodCache(periodCache, period, entry)
       IN  /\ periodCache' = next
           /\ periodCacheRef' = next
           /\ storage' = next
           /\ error' = IF currentPeriodRef = period THEN NoError ELSE error
           /\ lastEvent' = NoEvent
    /\ Finally(period, i)
    /\ UNCHANGED <<now, hasApi, currentPeriod, currentPeriodRef, bootPc>>
    /\ UNCHANGED aggVars

\* A banner that shows the failure of any period, displayed or not.
errorOfAnyPeriod(period, own, fallbackText) ==
    IF HasData(periodCacheRef[period]) THEN FallbackMessage
    ELSE IF own # "" THEN own ELSE fallbackText

\* The banner text after a recompute of `period` ended without a result.
errorAfterFailure(period, own, fallbackText) ==
    LET hasFallback == HasData(periodCacheRef[period])
    IN  IF currentPeriodRef = period
        THEN (IF hasFallback THEN FallbackMessage
              ELSE IF own # "" THEN own ELSE fallbackText)
        ELSE error

\* aggregateUsage resolved with success: false.
refreshFails(period, i, resultError) ==
    /\ i \in 1..Len(inflight[period])
    /\ LET next == cacheAfterFailure(periodCache, period)
       IN  /\ periodCache' = next
           /\ periodCacheRef' = next
           /\ storage' = IF next = periodCache THEN storage ELSE next
           /\ error' = errorAfterFailure(period, resultError, "load failed")
           /\ lastEvent' = FailedEvent(period)
    /\ Finally(period, i)
    /\ UNCHANGED <<now, hasApi, currentPeriod, currentPeriodRef, bootPc>>
    /\ UNCHANGED aggVars

\* aggregateUsage rejected.
refreshThrows(period, i, message) ==
    /\ i \in 1..Len(inflight[period])
    /\ LET next == cacheAfterFailure(periodCache, period)
       IN  /\ periodCache' = next
           /\ periodCacheRef' = next
           /\ storage' = IF next = periodCache THEN storage ELSE next
           /\ error' = errorAfterFailure(period, message, "unknown error")
           /\ lastEvent' = FailedEvent(period)
    /\ Finally(period, i)
    /\ UNCHANGED <<now, hasApi, currentPeriod, currentPeriodRef, bootPc>>
    /\ UNCHANGED aggVars

\* Time passes: the clock moves to the next instant the model looks at.
Tick ==
    /\ \A p \in PERIODS : \A i \in 1..Len(inflight[p]) :
            inflight[p][i].age < MaxFlightTicks
    /\ \E t \in Instants :
         /\ t > now
         /\ \A u \in Instants : u > now => t <= u
         /\ now' = t
    /\ inflight' = [p \in PERIODS |->
                      [i \in 1..Len(inflight[p]) |->
                         [inflight[p][i] EXCEPT !.age = @ + 1]]]
    /\ lastEvent' = NoEvent
    /\ UNCHANGED <<hasApi, currentPeriod, periodCache, error, refreshingMap,
                   periodCacheRef, currentPeriodRef, refreshingSetRef, storage,
                   bootPc>>
    /\ UNCHANGED aggVars

\* readUsageCache at mount: nothing stored, or what an earlier run of the page
\* stored PrevRunAge minutes before the clock starts.
StoredCaches ==
    {createEmptyCache,
     [p \in PERIODS |->
        MakeEntry(p, ResultData(p, getBeijingTimeWindow(p, StartNow - PrevRunAge)),
                  StartNow - PrevRunAge)]}

AggIdle ==
    /\ aggPc = "off"
    /\ aggPeriod = "none"
    /\ scan = <<>>
    /\ baseScan = <<>>
    /\ sessionSnapshots = <<>>
    /\ codexRecords = <<>>
    /\ scanRequests = <<>>
    /\ disk = <<>>
    /\ scanCall = <<>>
    /\ aggResult = <<>>

Init ==
    /\ now = StartNow
    /\ hasApi \in BOOLEAN
    /\ storage \in StoredCaches
    /\ periodCache = storage
    /\ periodCacheRef = storage
    /\ currentPeriod = "today"
    /\ currentPeriodRef = "today"
    /\ error = NoError
    /\ refreshingMap = [p \in PERIODS |-> FALSE]
    /\ refreshingSetRef = {}
    /\ inflight = [p \in PERIODS |-> <<>>]
    /\ bootPc = "init"
    /\ lastEvent = NoEvent
    /\ AggIdle

Next ==
    \/ bootstrap
    \/ checkAutoRefresh
    \/ handleRefresh
    \/ \E p \in PERIODS : handlePeriodChange(p)
    \/ \E p \in PERIODS, i \in 1..MaxInflight : refreshSucceeds(p, i)
    \/ \E p \in PERIODS, i \in 1..MaxInflight, e \in ResultErrors : refreshFails(p, i, e)
    \/ \E p \in PERIODS, i \in 1..MaxInflight, m \in ThrowMessages : refreshThrows(p, i, m)
    \/ Tick

Spec == Init /\ [][Next]_vars

----------------------------------------------------------------------------
(* The usage page: properties *)

TriggerJoinsInflight ==
    \A p \in lastEvent.guard : InflightOf(p) = 0

\* C4 as the code has it: a trigger that finds its period Refreshing returns
\* at once; it starts nothing, waits for nothing and receives no outcome, and
\* the recompute in flight, the cache and the banner are left as they were.
TriggerReturnsAtGuard ==
    [][/\ checkAutoRefresh => refreshingSetRef \subseteq lastEvent'.guard
       /\ (handleRefresh /\ currentPeriod \in refreshingSetRef)
              => currentPeriod \in lastEvent'.guard
       /\ \A p \in lastEvent'.guard :
              /\ p \in refreshingSetRef
              /\ inflight'[p] = inflight[p]
              /\ periodCache' = periodCache
              /\ error' = error]_vars

\* The retry button was pressed for a period in flight: the click returned,
\* the recompute is still running.
TriggerReturnsWitness ==
    /\ lastEvent.guard = {currentPeriod}
    /\ lastEvent.fresh = {} /\ lastEvent.started = {}
    /\ InflightOf(currentPeriod) = 1
    /\ error # NoError

\* C6: a recompute that ends with a failure result or an exception modifies
\* no cache slot, in memory or in localStorage; the period keeps showing the
\* entry it had, or the empty state when it had none.
FailureKeepsCache ==
    [][(\E p \in PERIODS, i \in 1..MaxInflight :
            \/ \E e \in ResultErrors : refreshFails(p, i, e)
            \/ \E m \in ThrowMessages : refreshThrows(p, i, m))
       => /\ periodCache' = periodCache
          /\ storage' = storage
          /\ displayData' = displayData
          /\ displayData = IF HasData(periodCache[currentPeriod])
                           THEN periodCache[currentPeriod].data
                           ELSE EMPTY_USAGE_DATA]_vars

\* The displayed period has just failed to recompute and still shows its entry.
FailureKeepsCacheWitness ==
    \E p \in lastEvent.failed :
        /\ p = currentPeriod
        /\ HasData(periodCache[p])
        /\ displayData = periodCache[p].data
        /\ storage[p] = periodCache[p]

\* C7 as stated: every failed recompute of a period raises the error banner,
\* with the fallback message when the slot holds an entry and with the
\* failure's own error otherwise, whichever period is displayed.
FailureAlwaysSignalled ==
    [][\A p \in PERIODS, i \in 1..MaxInflight :
         /\ \A e \in ResultErrors : refreshFails(p, i, e) =>
               error' = IF HasData(periodCache[p]) THEN FallbackMessage
                        ELSE IF e # "" THEN e ELSE "load failed"
         /\ \A m \in ThrowMessages : refreshThrows(p, i, m) =>
               error' = IF HasData(periodCache[p]) THEN FallbackMessage
                        ELSE IF m # "" THEN m ELSE "unknown error"]_vars

\* C7 as the code has it: a failed recompute raises the banner only when its
\* period is the displayed one; the failure of another period leaves the
\* banner as it was.
FailureSignalledWhenDisplayed ==
    [][\A p \in PERIODS, i \in 1..MaxInflight :
         /\ \A e \in ResultErrors : refreshFails(p, i, e) =>
               error' = IF p # currentPeriod THEN error
                        ELSE IF HasData(periodCache[p]) THEN FallbackMessage
                        ELSE IF e # "" THEN e ELSE "load failed"
         /\ \A m \in ThrowMessages : refreshThrows(p, i, m) =>
               error' = IF p # currentPeriod THEN error
                        ELSE IF HasData(periodCache[p]) THEN FallbackMessage
                        ELSE IF m # "" THEN m ELSE "unknown error"]_vars

\* A period that is not displayed has just failed, and no banner is up.
SilentFailureWitness ==
    \E p \in lastEvent.failed : p # currentPeriod /\ error = NoError

TodayStaleAfterMoreThanFive ==
    [][(checkAutoRefresh \/ (bootstrap /\ hasApi)) =>
         LET entry == periodCacheRef["today"]
             stale == \/ ~HasData(entry)
                      \/ entry.dayKey # (now + BeijingOffset) \div MinutesPerDay
                      \/ now - entry.computedAt > TODAY_REFRESH_INTERVAL
         IN  (Len(inflight'["today"]) = Len(inflight["today"]) + 1)
                <=> (stale /\ "today" \notin refreshingSetRef)]_vars

\* C9 as the code has it: the entry is stale from 5 minutes on, not only
\* after more than 5 minutes.
TodayStaleFromFive ==
    [][(checkAutoRefresh \/ (bootstrap /\ hasApi)) =>
         LET entry == periodCacheRef["today"]
             stale == \/ ~HasData(entry)
                      \/ entry.dayKey # (now + BeijingOffset) \div MinutesPerDay
                      \/ now - entry.computedAt >= TODAY_REFRESH_INTERVAL
         IN  (Len(inflight'["today"]) = Len(inflight["today"]) + 1)
                <=> (stale /\ "today" \notin refreshingSetRef)]_vars

\* The timer has just started a recompute of a today entry of the same civil
\* day that is exactly 5 minutes old.
TodayStaleAtFiveWitness ==
    /\ "today" \in lastEvent.started
    /\ HasData(periodCache["today"])
    /\ periodCache["today"].dayKey = (now + BeijingOffset) \div MinutesPerDay
    /\ now - periodCache["today"].computedAt = TODAY_REFRESH_INTERVAL

\* C10: a non-forced trigger recomputes week (month) exactly when the slot is
\* empty or the daily batch key of its entry differs from the key of the
\* current instant (and the period is not already in flight); the key of an
\* instant is its civil day, or the day before from 00:00 up to 00:05.
RangeStaleByDailyKey ==
    [][(checkAutoRefresh \/ (bootstrap /\ hasApi)) =>
         \A p \in {"week", "month"} :
            LET entry == periodCacheRef[p]
                local == now + BeijingOffset
                key == IF local % MinutesPerDay < DAILY_REFRESH_MINUTE
                       THEN local \div MinutesPerDay - 1
                       ELSE local \div MinutesPerDay
                stale == ~HasData(entry) \/ entry.dailyRefreshKey # key
            IN  (Len(inflight'[p]) = Len(inflight[p]) + 1)
                   <=> (stale /\ p \notin refreshingSetRef)]_vars

\* At 00:05 the timer has just started a recompute of a week entry that was
\* computed after the civil midnight.
RangeStaleWitness ==
    /\ now = Midnight + DAILY_REFRESH_MINUTE
    /\ "week" \in lastEvent.started
    /\ HasData(periodCache["week"])
    /\ periodCache["week"].computedAt >= Midnight

\* C11 as stated: a slot changes only when a successful recompute of its
\* period replaces the whole entry, whose data is the result of that call and
\* whose computedAt, dayKey and dailyRefreshKey are taken when it returns; so
\* every entry a slot holds comes whole from one successful recompute.
EntryOfOneRecompute ==
    [][\A p \in PERIODS : periodCache'[p] # periodCache[p] =>
          \E i \in 1..Len(inflight[p]) :
             /\ refreshSucceeds(p, i)
             /\ periodCache'[p] =
                   [data |-> ResultData(p, inflight[p][i].win),
                    computedAt |-> now,
                    dayKey |-> IF p = "today"
                               THEN (now + BeijingOffset) \div MinutesPerDay
                               ELSE Undefined,
                    dailyRefreshKey |-> IF p = "today" THEN Undefined
                                        ELSE getDailyRefreshKey(now)]
             /\ storage' = periodCache']_vars

\* C11 as the code has it: a slot changes only by the replacement of its whole
\* entry, either with the result and the metadata of one successful recompute
\* of its period, or, at a mount without the scanner API, with the empty data
\* and the metadata of the mount instant, for the three slots at once.
EntryReplacedWhole ==
    [][\A p \in PERIODS : periodCache'[p] # periodCache[p] =>
          \/ \E i \in 1..Len(inflight[p]) :
                /\ refreshSucceeds(p, i)
                /\ periodCache'[p] =
                      [data |-> ResultData(p, inflight[p][i].win),
                       computedAt |-> now,
                       dayKey |-> IF p = "today"
                                  THEN (now + BeijingOffset) \div MinutesPerDay
                                  ELSE Undefined,
                       dailyRefreshKey |-> IF p = "today" THEN Undefined
                                           ELSE getDailyRefreshKey(now)]
                /\ storage' = periodCache'
          \/ /\ bootstrap
             /\ ~hasApi
             /\ \A q \in PERIODS :
                   periodCache'[q] =
                      [data |-> EMPTY_USAGE_DATA,
                       computedAt |-> now,
                       dayKey |-> IF q = "today"
                                  THEN (now + BeijingOffset) \div MinutesPerDay
                                  ELSE Undefined,
                       dailyRefreshKey |-> IF q = "today" THEN Undefined
                                           ELSE getDailyRefreshKey(now)]
             /\ storage' = periodCache']_vars

\* The today slot holds the entry of a recompute that was called at one
\* instant and returned at a later one: the data of that call, with the
\* metadata of its return.
EntryReplacedWitness ==
    /\ HasData(periodCache["today"])
    /\ periodCache["today"].data.period = "today"
    /\ periodCache["today"].data.endTime < periodCache["today"].computedAt
    /\ periodCache["today"].computedAt = now
    /\ storage = periodCache

\* C27: the single-flight guard of a period is released when its recompute
\* ends, by success, by a failure result or by an exception: the period is
\* then neither in the guard nor shown as refreshing, and the next trigger
\* for a period that is not in flight and whose slot is stale (as it still is
\* after a failed recompute) starts a new aggregation.
GuardReleasedAtEnd ==
    [][/\ \A p \in PERIODS :
            (\E i \in 1..MaxInflight :
                \/ refreshSucceeds(p, i)
                \/ \E e \in ResultErrors : refreshFails(p, i, e)
                \/ \E m \in ThrowMessages : refreshThrows(p, i, m))
            => /\ p \notin refreshingSetRef'
               /\ ~refreshingMap'[p]
               /\ inflight'[p] = <<>>
       /\ \A p \in PERIODS :
            (/\ checkAutoRefresh
             /\ p \notin refreshingSetRef
             /\ shouldRefreshPeriod(p, periodCacheRef[p], now))
            => /\ p \in lastEvent'.started
               /\ p \in refreshingSetRef'
               /\ Len(inflight'[p]) = 1
       /\ (handleRefresh /\ currentPeriod \notin refreshingSetRef)
            => /\ currentPeriod \in lastEvent'.started
               /\ Len(inflight'[currentPeriod]) = 1]_vars

\* The displayed period failed to recompute, its banner is up and its slot
\* is still empty; the guard was free, and a trigger has just started a new
\* aggregation for it.
RetryAfterFailureWitness ==
    /\ error # NoError
    /\ ~HasData(periodCache[currentPeriod])
    /\ currentPeriod \in lastEvent.started
    /\ currentPeriod \in refreshingSetRef
    /\ InflightOf(currentPeriod) = 1

\* C28: the staleness metadata of an entry belongs to the instant of the
\* window of its data: a today entry that holds a result and is judged fresh
\* at the present instant holds data whose window starts at the civil
\* midnight of the present civil day.
FreshTodayIsOfToday ==
    (/\ periodCache["today"].data.period = "today"
     /\ isTodayCacheFresh(periodCache["today"], now))
        => periodCache["today"].data.startTime = getBeijingDayStart(now)

\* A recompute of today started before the civil midnight and ended after
\* it: the entry holds the window of the day before under the day key of the
\* new day, and is judged fresh.
StaleDayUnderNewKeyWitness ==
    /\ periodCache["today"].data.period = "today"
    /\ periodCache["today"].data.startTime = getBeijingDayStart(StartNow)
    /\ periodCache["today"].data.endTime = StartNow
    /\ periodCache["today"].computedAt = Midnight
    /\ periodCache["today"].dayKey = getBeijingDayKey(Midnight)
    /\ getBeijingDayStart(Midnight) = Midnight
    /\ getBeijingDayStart(StartNow) = Midnight - MinutesPerDay
    /\ now = Midnight
    /\ isTodayCacheFresh(periodCache["today"], now)
    /\ ~shouldRefreshPeriod("today", periodCache["today"], now)

----------------------------------------------------------------------------
(* The aggregator: log lines and their parsers *)

\* Math.max(0, x)
Max0(x) == IF x < 0 THEN 0 ELSE x

\* toSafeInt over the integers; a missing field is written 0, as it parses.
toSafeInt(value) == Max0(value)

UpperCaseLetters == "ABCDEFGHIJKLMNOPQRSTUVWXYZ"

LowerCaseLetters == "abcdefghijklmnopqrstuvwxyz"

\* String.prototype.toLowerCase, over ASCII text
RECURSIVE toLowerCase(_)
toLowerCase(str) ==
    IF str = "" THEN ""
    ELSE LET c == SubSeq(str, 1, 1)
             at == {i \in 1..Len(UpperCaseLetters) :
                        SubSeq(UpperCaseLetters, i, i) = c}
         IN  (IF at = {} THEN c
              ELSE LET i == CHOOSE i \in at : TRUE
                   IN  SubSeq(LowerCaseLetters, i, i))
             \o toLowerCase(Tail(str))

\* String.prototype.includes
includes(str, searchString) ==
    \E i \in 1..(Len(str) - Len(searchString) + 1) :
        SubSeq(str, i, i + Len(searchString) - 1) = searchString

\* The positions of a character in a text, in ascending order.
PositionsOf(str, ch) ==
    LET at == {i \in 1..Len(str) : SubSeq(str, i, i) = ch}
        RECURSIVE Ascending(_)
        Ascending(S) == IF S = {} THEN <<>>
                        ELSE LET m == CHOOSE x \in S : \A y \in S : x <= y
                             IN  <<m>> \o Ascending(S \ {m})
    IN  Ascending(at)

\* A log path: its file name is stem followed by uuid and ".jsonl"; uuid is
\* "" when the name does not end in a UUID.
extractCodexSessionId(filePath) ==
    toLowerCase(IF filePath.uuid # "" THEN filePath.uuid
                ELSE IF filePath.stem # "" THEN filePath.stem
                ELSE "unknown-codex-session")

\* null, for a snapshot
NoSnapshot ==
    [timestamp |-> Undefined, model |-> "codex", inputTotal |-> 0,
     outputTotal |-> 0, cacheReadTotal |-> 0, totalTokens |-> 0]

\* A line is the JSON text it holds, or (json FALSE) a text JSON.parse throws
\* on; total_token_usage FALSE is a token_count event without that object.
parseCodexTokenSnapshot(line) ==
    IF ~line.json THEN NoSnapshot
    ELSE IF line.type # "token_count" THEN NoSnapshot
    ELSE IF ~line.total_token_usage THEN NoSnapshot
    ELSE LET inputTotal == toSafeInt(line.input_tokens)
             outputTotal == toSafeInt(line.output_tokens)
             cacheReadTotal == toSafeInt(line.cached_input_tokens)
         IN  [timestamp |-> line.timestamp,
              model |-> "codex",
              inputTotal |-> inputTotal,
              outputTotal |-> outputTotal,
              cacheReadTotal |-> cacheReadTotal,
              totalTokens |-> IF toSafeInt(line.total_tokens) # 0
                              THEN toSafeInt(line.total_tokens)
                              ELSE inputTotal + outputTotal + cacheReadTotal]

\* lowerModel.split(':')[0]
BeforeColon(str) ==
    LET at == PositionsOf(str, ":")
    IN  IF at = <<>> THEN str ELSE SubSeq(str, 1, at[1] - 1)

\* str.split('-').slice(0, 2).join('-')
FirstTwoSegments(str) ==
    LET at == PositionsOf(str, "-")
    IN  IF Len(at) < 2 THEN str ELSE SubSeq(str, 1, at[2] - 1)

\* A model name is a text; "" also stands for a missing model.
normalizeModelName(model) ==
    IF model = "" THEN "unknown"
    ELSE LET lowerModel == toLowerCase(model)
         IN  IF includes(lowerModel, "claude-opus") \/ includes(lowerModel, "opus")
             THEN "opus"
             ELSE IF includes(lowerModel, "claude-sonnet")
                     \/ includes(lowerModel, "sonnet")
             THEN "sonnet"
             ELSE IF includes(lowerModel, "claude-haiku")
                     \/ includes(lowerModel, "haiku")
             THEN "haiku"
             ELSE IF includes(lowerModel, "claude") THEN "claude"
             ELSE IF includes(lowerModel, "gpt-5") \/ includes(lowerModel, "gpt5")
             THEN "gpt-5"
             ELSE IF includes(lowerModel, "gpt-4o") THEN "gpt-4o"
             ELSE IF includes(lowerModel, "gpt-4") THEN "gpt-4"
             ELSE IF includes(lowerModel, "gpt-3.5") \/ includes(lowerModel, "gpt3")
             THEN "gpt-3.5"
             ELSE IF includes(lowerModel, "kimi") THEN "kimi"
             ELSE IF includes(lowerModel, "deepseek") THEN "deepseek"
             ELSE IF includes(lowerModel, "gemini") THEN "gemini"
             ELSE IF includes(lowerModel, "qwen") THEN "qwen"
             ELSE IF includes(lowerModel, "yi") THEN "yi"
             ELSE IF includes(lowerModel, "llama") THEN "llama"
             ELSE IF includes(lowerModel, "mistral") THEN "mistral"
             ELSE FirstTwoSegments(BeforeColon(lowerModel))

\* message.model of the Claude lines whose view data is generated
RawModelNames ==
    <<"claude-opus-4-20250514", "claude-sonnet-4-5-20250929",
      "claude-3-5-haiku-20241022", "gpt-5-codex", "kimi-k2", "deepseek-v3",
      "gemini-2.5-pro", "qwen-max">>

\* Pieces of model names: separators, letters in both cases, a digit, and
\* words the normalisation looks for.
NameParts == {":", "-", "x", "Llama", "gpt-4", "o", "latest", "3"}

\* The texts made of up to n of these pieces.
RECURSIVE TextsOf(_)
TextsOf(n) ==
    IF n = 0 THEN {""}
    ELSE LET shorter == TextsOf(n - 1)
         IN  shorter \cup {t \o part : t \in shorter, part \in NameParts}

\* message.model of the Claude lines whose names are normalised
ModelNameInputs == TextsOf(MaxNameParts)

\* message.model of all the lines scanned, and the name of a line without one
ModelNames ==
    {RawModelNames[i] : i \in 1..Len(RawModelNames)} \cup ModelNameInputs
        \cup {"unknown"}

\* normalizeModelName over these names, worked out once
NormalizedModelName == [model \in ModelNames |-> normalizeModelName(model)]

\* null, for a usage record
NoRecord ==
    [timestamp |-> Undefined, model |-> "unknown", input |-> 0, output |-> 0,
     cacheRead |-> 0, cacheCreate |-> 0]

\* A parser that takes a line without message.usage as a usage of nothing.
parseClaudeLogWithoutUsageCheck(line) ==
    IF ~line.json THEN NoRecord
    ELSE [timestamp |-> line.timestamp,
          model |-> NormalizedModelName[IF line.model = "" THEN "unknown"
                                        ELSE line.model],
          input |-> line.input_tokens,
          output |-> line.output_tokens,
          cacheRead |-> line.cache_read_input_tokens,
          cacheCreate |-> line.cache_creation_input_tokens]

\* usage FALSE is a line without message.usage, model "" one without
\* message.model.
parseClaudeLog(line) ==
    IF ~line.json THEN NoRecord
    ELSE IF ~line.usage THEN NoRecord
    ELSE [timestamp |-> line.timestamp,
          model |-> NormalizedModelName[IF line.model = "" THEN "unknown"
                                        ELSE line.model],
          input |-> line.input_tokens,
          output |-> line.output_tokens,
          cacheRead |-> line.cache_read_input_tokens,
          cacheCreate |-> line.cache_creation_input_tokens]

\* A total that leaves the cache writes out.
calculateTotalTokensWithoutCacheCreate(record) ==
    record.input + record.output + record.cacheRead

calculateTotalTokens(record) ==
    record.input + record.output + record.cacheRead + record.cacheCreate

----------------------------------------------------------------------------
(* The aggregator: scanCodexLogs, scanClaudeLogs, aggregateUsage *)

\* A choice that keeps the snapshot met last.
pickCodexLastSnapshot(current, incoming) == incoming

pickCodexMaxSnapshot(current, incoming) ==
    IF current = NoSnapshot THEN incoming
    ELSE IF incoming.totalTokens > current.totalTokens THEN incoming
    ELSE IF incoming.totalTokens = current.totalTokens
            /\ incoming.timestamp > current.timestamp THEN incoming
    ELSE current

\* The loop over the lines of one file.
RECURSIVE scanCodexLines(_, _, _, _)
scanCodexLines(state, lines, start, end) ==
    IF lines = <<>> THEN state
    ELSE LET snapshot == parseCodexTokenSnapshot(Head(lines))
             next ==
                 IF snapshot.timestamp = Undefined THEN state
                 ELSE IF snapshot.timestamp < start
                 THEN [state EXCEPT !.beforeWindow = pickCodexMaxSnapshot(@, snapshot)]
                 ELSE IF snapshot.timestamp >= start /\ snapshot.timestamp < end
                 THEN [state EXCEPT !.inWindow = pickCodexMaxSnapshot(@, snapshot)]
                 ELSE state
         IN  scanCodexLines(next, Tail(lines), start, end)

\* The loop over the files; sessions is the Map, in insertion order.
RECURSIVE scanCodexFiles(_, _, _, _)
scanCodexFiles(sessions, files, start, end) ==
    IF files = <<>> THEN sessions
    ELSE LET file == Head(files)
             sessionId == extractCodexSessionId(file.path)
             known == {i \in 1..Len(sessions) : sessions[i].id = sessionId}
             state == IF known = {}
                      THEN [id |-> sessionId, beforeWindow |-> NoSnapshot,
                            inWindow |-> NoSnapshot]
                      ELSE sessions[CHOOSE i \in known : TRUE]
             scanned == scanCodexLines(state, file.lines, start, end)
             next == IF known = {} THEN Append(sessions, scanned)
                     ELSE [sessions EXCEPT ![CHOOSE i \in known : TRUE] = scanned]
         IN  scanCodexFiles(next, Tail(files), start, end)

\* A record whose input still contains the cached input.
codexRecordCachedInInput(state) ==
    LET before == IF state.beforeWindow = NoSnapshot
                  THEN [inputTotal |-> 0, outputTotal |-> 0, cacheReadTotal |-> 0,
                        totalTokens |-> 0]
                  ELSE state.beforeWindow
    IN  [timestamp |-> state.inWindow.timestamp,
         model |-> state.inWindow.model,
         input |-> Max0(state.inWindow.inputTotal - before.inputTotal),
         output |-> Max0(state.inWindow.outputTotal - before.outputTotal),
         cacheRead |-> Max0(state.inWindow.cacheReadTotal - before.cacheReadTotal),
         cacheCreate |-> 0]

\* The record of one session: its in-window maximum less its baseline.
codexRecord(state) ==
    LET before == IF state.beforeWindow = NoSnapshot
                  THEN [inputTotal |-> 0, outputTotal |-> 0, cacheReadTotal |-> 0,
                        totalTokens |-> 0]
                  ELSE state.beforeWindow
        deltaInputTotal == Max0(state.inWindow.inputTotal - before.inputTotal)
        deltaOutput == Max0(state.inWindow.outputTotal - before.outputTotal)
        deltaCacheRead == Max0(state.inWindow.cacheReadTotal - before.cacheReadTotal)
        deltaNonCachedInput == Max0(deltaInputTotal - deltaCacheRead)
    IN  [timestamp |-> state.inWindow.timestamp,
         model |-> state.inWindow.model,
         input |-> deltaNonCachedInput,
         output |-> deltaOutput,
         cacheRead |-> deltaCacheRead,
         cacheCreate |-> 0]

\* The loop over the sessions: no in-window snapshot or no increase, no record.
RECURSIVE codexRecordsOf(_)
codexRecordsOf(sessions) ==
    IF sessions = <<>> THEN <<>>
    ELSE LET state == Head(sessions)
             record == codexRecord(state)
         IN  IF state.inWindow = NoSnapshot \/ calculateTotalTokens(record) <= 0
             THEN codexRecordsOf(Tail(sessions))
             ELSE <<record>> \o codexRecordsOf(Tail(sessions))

\* The slots scanCodexLogs ends with; none when the scan is not used.
codexSessions(result, start, end) ==
    IF ~hasApi \/ ~result.success THEN <<>>
    ELSE scanCodexFiles(<<>>, result.files, start, end)

\* A loop that emits a record for every session with an in-window snapshot.
RECURSIVE codexRecordsKeepingZero(_)
codexRecordsKeepingZero(sessions) ==
    IF sessions = <<>> THEN <<>>
    ELSE IF Head(sessions).inWindow = NoSnapshot
    THEN codexRecordsKeepingZero(Tail(sessions))
    ELSE <<codexRecord(Head(sessions))>> \o codexRecordsKeepingZero(Tail(sessions))

scanCodexLogsKeepingZero(result, start, end) ==
    codexRecordsKeepingZero(codexSessions(result, start, end))

scanCodexLogs(result, start, end) == codexRecordsOf(codexSessions(result, start, end))

\* A test that also takes the record stamped at the end of the window.
claudeRecordInWindowClosed(record, start, end) ==
    record # NoRecord /\ record.timestamp >= start /\ record.timestamp <= end

\* The test of scanClaudeLogs on one parsed line.
claudeRecordInWindow(record, start, end) ==
    record # NoRecord /\ record.timestamp >= start /\ record.timestamp < end

RECURSIVE claudeLines(_, _, _)
claudeLines(lines, start, end) ==
    IF lines = <<>> THEN <<>>
    ELSE LET record == parseClaudeLog(Head(lines))
         IN  IF claudeRecordInWindow(record, start, end)
             THEN <<record>> \o claudeLines(Tail(lines), start, end)
             ELSE claudeLines(Tail(lines), start, end)

RECURSIVE claudeFiles(_, _, _)
claudeFiles(files, start, end) ==
    IF files = <<>> THEN <<>>
    ELSE claudeLines(Head(files).lines, start, end)
            \o claudeFiles(Tail(files), start, end)

scanClaudeLogs(result, start, end) ==
    IF ~hasApi \/ ~result.success THEN <<>>
    ELSE claudeFiles(result.files, start, end)

\* aggregated is the Map, in insertion order.
RECURSIVE aggregateByModel(_, _)
aggregateByModel(aggregated, records) ==
    IF records = <<>> THEN aggregated
    ELSE LET record == Head(records)
             known == {i \in 1..Len(aggregated) : aggregated[i].name = record.model}
             withModel ==
                 IF known = {}
                 THEN Append(aggregated,
                             [name |-> record.model, input |-> 0, output |-> 0,
                              cacheRead |-> 0, cacheCreate |-> 0, total |-> 0,
                              count |-> 0])
                 ELSE aggregated
             at == CHOOSE i \in 1..Len(withModel) : withModel[i].name = record.model
             next == [withModel EXCEPT ![at] =
                        [name |-> @.name,
                         input |-> @.input + record.input,
                         output |-> @.output + record.output,
                         cacheRead |-> @.cacheRead + record.cacheRead,
                         cacheCreate |-> @.cacheCreate + record.cacheCreate,
                         total |-> @.total + calculateTotalTokens(record),
                         count |-> @.count + 1]]
         IN  aggregateByModel(next, Tail(records))

RECURSIVE SumOver(_, _)
SumOver(models, field) ==
    IF models = <<>> THEN 0
    ELSE Head(models)[field] + SumOver(Tail(models), field)

\* MODEL_COLORS: its keys and colors, in the order of the object literal.
MODEL_COLORS ==
    << <<"opus", "#2563eb">>, <<"claude-opus", "#2563eb">>,
       <<"sonnet", "#6366f1">>, <<"claude-sonnet", "#6366f1">>,
       <<"haiku", "#8b5cf6">>, <<"claude-haiku", "#8b5cf6">>,
       <<"claude", "#ec4899">>, <<"gpt-5", "#e67e22">>, <<"gpt-4o", "#f97316">>,
       <<"gpt-4", "#f59e0b">>, <<"gpt-3.5", "#fbbf24">>, <<"kimi", "#16a34a">>,
       <<"kimi-pro", "#22c55e">>, <<"deepseek", "#a855f7">>,
       <<"gemini", "#dc2626">>, <<"qwen", "#10b981">>, <<"yi", "#ec4899">>,
       <<"llama", "#06b6d4">>, <<"mistral", "#f59e0b">>, <<"codex", "#3b82f6">>,
       <<"default", "#8b919a">> >>

\* MODEL_COLORS.default
DefaultColor == MODEL_COLORS[Len(MODEL_COLORS)][2]

\* The direct match, then the first key the name includes, then the default.
getModelColor(model) ==
    LET normalized == toLowerCase(model)
        direct == {i \in 1..Len(MODEL_COLORS) : MODEL_COLORS[i][1] = normalized}
        partial == {i \in 1..Len(MODEL_COLORS) :
                        includes(normalized, MODEL_COLORS[i][1])}
    IN  IF direct # {} THEN MODEL_COLORS[CHOOSE i \in direct : TRUE][2]
        ELSE IF partial # {}
        THEN MODEL_COLORS[CHOOSE i \in partial : \A j \in partial : i <= j][2]
        ELSE DefaultColor

\* getModelColor over the names of the models aggregated, worked out once
ModelColor ==
    [name \in {NormalizedModelName[model] : model \in ModelNames} \cup {"codex"}
        |-> getModelColor(name)]

\* The names the model uses, in the order of String.prototype.localeCompare.
NamesInLocaleOrder ==
    <<"codex", "deepseek", "gemini", "gpt-5", "haiku", "kimi", "opus", "qwen",
      "sonnet", "unknown">>

\* a.localeCompare(b): negative, zero or positive
localeCompare(a, b) ==
    LET Rank(name) == CHOOSE i \in 1..Len(NamesInLocaleOrder) :
                          NamesInLocaleOrder[i] = name
    IN  Rank(a) - Rank(b)

\* A comparator without the tie-break on the name.
compareModelsByTotal(a, b) == b.total - a.total

\* The comparator of the sort: (b.total - a.total) || a.name.localeCompare(b.name)
compareModels(a, b) ==
    IF b.total - a.total # 0 THEN b.total - a.total
    ELSE localeCompare(a.name, b.name)

\* Array.prototype.sort, which is stable: x goes behind every element it does
\* not sort before.
RECURSIVE InsertSorted(_, _)
InsertSorted(sorted, x) ==
    IF sorted = <<>> THEN <<x>>
    ELSE IF compareModels(x, Head(sorted)) < 0 THEN <<x>> \o sorted
    ELSE <<Head(sorted)>> \o InsertSorted(Tail(sorted), x)

RECURSIVE sortModels(_)
sortModels(models) ==
    IF models = <<>> THEN <<>>
    ELSE InsertSorted(sortModels(SubSeq(models, 1, Len(models) - 1)),
                      models[Len(models)])

\* A filter that keeps the models without consumption.
nonZeroModelsUnfiltered(aggregated) == aggregated

\* Array.from(aggregated.values()).filter(model => model.total > 0)
nonZeroModels(aggregated) ==
    LET NonZero(model) == model.total > 0
    IN  SelectSeq(aggregated, NonZero)

\* total > 0 ? Math.round((part / total) * 100) : 0.  Math.round takes a half
\* upwards; the quotient is taken exactly.
percentOf(part, total) ==
    IF total > 0 THEN (200 * part + total) \div (2 * total) ELSE 0

\* `其他 (${n}个模型)`
OthersName(n) ==
    CASE n = 1 -> "Others (1 models)"
      [] n = 2 -> "Others (2 models)"
      [] n = 3 -> "Others (3 models)"
      [] OTHER -> "Others (more models)"

\* the Top N of the distribution
TopModels == 5

DistributionEntry(model) ==
    [name |-> model.name, percent |-> model.percent, color |-> model.color,
     key |-> model.name]

\* A distribution that goes to Top 5 + Others from five models on.
distributionOfFromFive(modelsWithPercent, total) ==
    IF ~(Len(modelsWithPercent) >= TopModels)
    THEN [i \in 1..Len(modelsWithPercent) |-> DistributionEntry(modelsWithPercent[i])]
    ELSE LET topModels == SubSeq(modelsWithPercent, 1, TopModels - 1)
             otherModels == SubSeq(modelsWithPercent, TopModels,
                                   Len(modelsWithPercent))
             othersTotal == SumOver(otherModels, "total")
         IN  [i \in 1..Len(topModels) |-> DistributionEntry(topModels[i])]
             \o <<[name |-> OthersName(Len(otherModels)),
                   percent |-> percentOf(othersTotal, total),
                   color |-> DefaultColor,
                   key |-> "others"]>>

\* The distribution of generateViewData: every model, or Top 5 + Others.
distributionOf(modelsWithPercent, total) ==
    IF ~(Len(modelsWithPercent) > TopModels)
    THEN [i \in 1..Len(modelsWithPercent) |-> DistributionEntry(modelsWithPercent[i])]
    ELSE LET topModels == SubSeq(modelsWithPercent, 1, TopModels)
             otherModels == SubSeq(modelsWithPercent, TopModels + 1,
                                   Len(modelsWithPercent))
             othersTotal == SumOver(otherModels, "total")
             othersPercent == percentOf(othersTotal, total)
         IN  [i \in 1..Len(topModels) |-> DistributionEntry(topModels[i])]
             \o (IF othersTotal > 0
                 THEN <<[name |-> OthersName(Len(otherModels)),
                         percent |-> othersPercent,
                         color |-> DefaultColor,
                         key |-> "others"]>>
                 ELSE <<>>)

generateViewData(aggregated) ==
    LET sorted == sortModels(nonZeroModels(aggregated))
        models == [i \in 1..Len(sorted) |->
                     [name |-> sorted[i].name, input |-> sorted[i].input,
                      output |-> sorted[i].output,
                      cacheRead |-> sorted[i].cacheRead,
                      cacheCreate |-> sorted[i].cacheCreate,
                      total |-> sorted[i].total, count |-> sorted[i].count,
                      color |-> ModelColor[sorted[i].name]]]
        total == SumOver(models, "total")
        modelsWithPercent ==
            [i \in 1..Len(models) |->
               [name |-> models[i].name, total |-> models[i].total,
                color |-> models[i].color,
                percent |-> percentOf(models[i].total, total)]]
    IN  [total |-> total,
         input |-> SumOver(models, "input"),
         output |-> SumOver(models, "output"),
         cache |-> SumOver(models, "cacheRead") + SumOver(models, "cacheCreate"),
         models |-> models,
         distribution |-> distributionOf(modelsWithPercent, total),
         isExtremeScenario |-> Len(models) > TopModels,
         modelCount |-> Len(models)]

\* An aggregation that takes a period it does not know for today, as
\* getBeijingTimeWindow does.
aggregateUsageDefaultingToToday(period, date, results) ==
    LET win == getBeijingTimeWindow(period, date)
        claudeRecords == scanClaudeLogs(results.claude, win.start, win.end)
        codex == scanCodexLogs(results.codex, win.start, win.end)
        allRecords == claudeRecords \o codex
        viewData == generateViewData(aggregateByModel(<<>>, allRecords))
    IN  [success |-> TRUE,
         data |-> [total |-> viewData.total,
                   input |-> viewData.input,
                   output |-> viewData.output,
                   cache |-> viewData.cache,
                   models |-> viewData.models,
                   distribution |-> viewData.distribution,
                   isExtremeScenario |-> viewData.isExtremeScenario,
                   modelCount |-> viewData.modelCount,
                   period |-> period,
                   startTime |-> win.start,
                   endTime |-> win.end,
                   recordCount |-> Len(allRecords)]]

\* The calls of window.electronAPI.scanLogFiles that aggregateUsage(period)
\* makes at `date`: one by scanClaudeLogs and one by scanCodexLogs, after the
\* argument check and when the API is there.
scanLogFilesCalls(period, date) ==
    IF period \notin PERIODS \/ ~hasApi THEN <<>>
    ELSE LET win == getBeijingTimeWindow(period, date)
         IN  <<[basePath |-> "~/.claude/projects", start |-> win.start,
                end |-> win.end],
               [basePath |-> "~/.codex/sessions", start |-> win.start,
                end |-> win.end]>>

\* aggregateUsage(period) called at `date`, with what the scanner returns.
aggregateUsage(period, date, results) ==
    IF period \notin PERIODS
    THEN [success |-> FALSE, error |-> "INVALID_PERIOD"]
    ELSE LET win == getBeijingTimeWindow(period, date)
             claudeRecords == scanClaudeLogs(results.claude, win.start, win.end)
             codex == scanCodexLogs(results.codex, win.start, win.end)
             allRecords == claudeRecords \o codex
             viewData == generateViewData(aggregateByModel(<<>>, allRecords))
         IN  [success |-> TRUE,
              data |-> [total |-> viewData.total,
                        input |-> viewData.input,
                        output |-> viewData.output,
                        cache |-> viewData.cache,
                        models |-> viewData.models,
                        distribution |-> viewData.distribution,
                        isExtremeScenario |-> viewData.isExtremeScenario,
                        modelCount |-> viewData.modelCount,
                        period |-> period,
                        startTime |-> win.start,
                        endTime |-> win.end,
                        recordCount |-> Len(allRecords)]]

----------------------------------------------------------------------------
(* The aggregator: what is scanned, and one call of aggregateUsage *)

\* The aggregator is called five minutes after a civil midnight.
AggNow == Midnight + TODAY_REFRESH_INTERVAL

TokenCount(timestamp, input, output, cached, total) ==
    [json |-> TRUE, type |-> "token_count", total_token_usage |-> TRUE,
     timestamp |-> timestamp, input_tokens |-> input,
     output_tokens |-> output, cached_input_tokens |-> cached,
     total_tokens |-> total]

\* Codex lines: cumulative snapshots stamped the minute before and the minute
\* after the civil midnight (total_tokens 0: the field is absent), and an
\* event that is no token_count.
CodexLines ==
    {TokenCount(Midnight + 1, 2, 1, 0, 0),
     TokenCount(Midnight + 1, 1, 2, 0, 0),
     TokenCount(Midnight + 1, 3, 3, 1, 6),
     TokenCount(Midnight - 1, 2, 1, 2, 0),
     TokenCount(Midnight - 1, 1, 2, 0, 0),
     [json |-> TRUE, type |-> "turn_context", total_token_usage |-> FALSE,
      timestamp |-> Midnight + 1, input_tokens |-> 0,
      output_tokens |-> 0, cached_input_tokens |-> 0, total_tokens |-> 0]}

FirstCodexPath == [stem |-> "rollout-1-", uuid |-> "AB12"]

\* The second file: the same session in another letter case, another
\* session, and a name without a UUID.
SecondCodexPaths ==
    {[stem |-> "rollout-2-", uuid |-> "ab12"],
     [stem |-> "rollout-2-", uuid |-> "cd34"],
     [stem |-> "Notes", uuid |-> ""]}

ClaudeLine ==
    [json |-> TRUE, usage |-> TRUE, timestamp |-> Midnight + 1,
     model |-> "claude-sonnet-4-5-20250929", input_tokens |-> 1,
     output_tokens |-> 1, cache_read_input_tokens |-> 1,
     cache_creation_input_tokens |-> 1]

BoundedSeq(S, n) == UNION {[1..k -> S] : k \in 0..n}

\* handleScanLogFiles caught an error.
ScanFailure == [success |-> FALSE, files |-> <<>>, error |-> "PERMISSION_DENIED"]

ScanSuccess(files) == [success |-> TRUE, files |-> files, error |-> "null"]

ClaudeResults ==
    {ScanFailure,
     ScanSuccess(<<[path |-> [stem |-> "project", uuid |-> ""],
                    lines |-> <<ClaudeLine>>]>>)}

CodexResults ==
    {ScanFailure} \cup
    {ScanSuccess(<<[path |-> FirstCodexPath, lines |-> l1],
                   [path |-> p2, lines |-> l2]>>) :
        p2 \in SecondCodexPaths,
        <<l1, l2>> \in {ll \in BoundedSeq(CodexLines, MaxLines)
                                  \X BoundedSeq(CodexLines, MaxLines) :
                            Len(ll[1]) + Len(ll[2]) <= MaxScanLines
                            /\ Len(ll[2]) < MaxLines}}

RECURSIVE CountLines(_)
CountLines(files) ==
    IF files = <<>> THEN 0 ELSE Len(Head(files).lines) + CountLines(Tail(files))

InsertAt(s, k, x) == SubSeq(s, 1, k - 1) \o <<x>> \o SubSeq(s, k, Len(s))

\* The log holds a snapshot line once more: line i of file f stands again at
\* position k of file g, a file of the same session.
RepeatLine(f, i, g, k) ==
    /\ aggPc = "input"
    /\ scan.codex.success
    /\ CountLines(scan.codex.files) < CountLines(baseScan.codex.files) + MaxRepeats
    /\ f \in 1..Len(scan.codex.files)
    /\ g \in 1..Len(scan.codex.files)
    /\ i \in 1..Len(scan.codex.files[f].lines)
    /\ k \in 1..(Len(scan.codex.files[g].lines) + 1)
    /\ scan.codex.files[f].lines[i].type = "token_count"
    /\ extractCodexSessionId(scan.codex.files[g].path)
          = extractCodexSessionId(scan.codex.files[f].path)
    /\ scan' = [scan EXCEPT !.codex.files[g].lines =
                    InsertAt(@, k, scan.codex.files[f].lines[i])]
    /\ UNCHANGED <<aggPc, aggPeriod, baseScan, sessionSnapshots, codexRecords,
                   scanRequests, disk, scanCall, aggResult>>
    /\ UNCHANGED pageVars

\* One call of aggregateUsage(period), from its argument check to its return.
runAggregateUsage(period) ==
    /\ aggPc = "input"
    /\ aggPc' = "done"
    /\ aggPeriod' = period
    /\ LET win == getBeijingTimeWindow(period, now)
           sessions == IF period \in PERIODS
                       THEN codexSessions(scan.codex, win.start, win.end)
                       ELSE <<>>
       IN  /\ sessionSnapshots' = sessions
           /\ codexRecords' = codexRecordsOf(sessions)
    /\ scanRequests' = scanLogFilesCalls(period, now)
    /\ aggResult' = aggregateUsage(period, now, scan)
    /\ UNCHANGED <<scan, baseScan, disk, scanCall>>
    /\ UNCHANGED pageVars

InitAgg ==
    /\ now = AggNow
    /\ hasApi = TRUE
    /\ storage = createEmptyCache
    /\ periodCache = storage
    /\ periodCacheRef = storage
    /\ currentPeriod = "today"
    /\ currentPeriodRef = "today"
    /\ error = NoError
    /\ refreshingMap = [p \in PERIODS |-> FALSE]
    /\ refreshingSetRef = {}
    /\ inflight = [p \in PERIODS |-> <<>>]
    /\ bootPc = "init"
    /\ lastEvent = NoEvent
    /\ aggPc = "input"
    /\ aggPeriod = "none"
    /\ scan \in [claude : ClaudeResults, codex : CodexResults]
    /\ baseScan = scan
    /\ sessionSnapshots = <<>>
    /\ codexRecords = <<>>
    /\ scanRequests = <<>>
    /\ disk = <<>>
    /\ scanCall = <<>>
    /\ aggResult = <<>>

\* One call of aggregateUsage over what the scanner returned.
NextAgg == \E period \in PERIODS : runAggregateUsage(period)

SpecAgg == InitAgg /\ [][NextAgg]_vars

\* The same, over a scan in which snapshot lines may stand more than once.
NextRepeat ==
    \/ \E f \in 1..2, g \in 1..2, i \in 1..(MaxLines + MaxRepeats),
          k \in 1..(MaxLines + MaxRepeats + 1) : RepeatLine(f, i, g, k)
    \/ \E period \in PERIODS : runAggregateUsage(period)

SpecRepeat == InitAgg /\ [][NextRepeat]_vars

\* Lines that yield no record: a text cut off before its end, and a JSON text
\* without the usage object; each would count tokens if it were taken.
BadLines ==
    [claude |-> {[ClaudeLine EXCEPT !.json = FALSE],
                 [ClaudeLine EXCEPT !.usage = FALSE]},
     codex |-> {[TokenCount(Midnight + 1, 9, 9, 0, 0) EXCEPT !.json = FALSE],
                [TokenCount(Midnight + 1, 9, 9, 0, 0)
                    EXCEPT !.total_token_usage = FALSE]}]

\* The log of a source holds such a line at position k of file g.
InsertBadLine(source, g, k, bad) ==
    /\ aggPc = "input"
    /\ scan[source].success
    /\ CountLines(scan.claude.files) + CountLines(scan.codex.files)
          < CountLines(baseScan.claude.files) + CountLines(baseScan.codex.files)
              + MaxBadLines
    /\ g \in 1..Len(scan[source].files)
    /\ k \in 1..(Len(scan[source].files[g].lines) + 1)
    /\ bad \in BadLines[source]
    /\ scan' = [scan EXCEPT ![source].files[g].lines = InsertAt(@, k, bad)]
    /\ UNCHANGED <<aggPc, aggPeriod, baseScan, sessionSnapshots, codexRecords,
                   scanRequests, disk, scanCall, aggResult>>
    /\ UNCHANGED pageVars

NextMalformed ==
    \/ \E source \in {"claude", "codex"}, g \in 1..2,
          k \in 1..(MaxLines + MaxBadLines + 1),
          bad \in BadLines.claude \cup BadLines.codex :
            InsertBadLine(source, g, k, bad)
    \/ \E period \in PERIODS : runAggregateUsage(period)

\* One call of aggregateUsage over a scan that holds such lines.
SpecMalformed == InitAgg /\ [][NextMalformed]_vars

\* The aggregator is called just before a civil midnight, at it, and five
\* minutes after it.
WindowInstants == {Midnight - 1, Midnight, AggNow}

\* Timestamps at and one minute before the starts and ends of the windows of
\* these instants, and around the latest of the instants.
BoundaryStamps ==
    {Midnight - d * MinutesPerDay - e :
        d \in {0, 1, WeekDays, WeekDays + 1, MonthDays, MonthDays + 1},
        e \in {0, 1}}
    \cup {AggNow - 1, AggNow, AggNow + 1}

ClaudeLineAt(timestamp) == [ClaudeLine EXCEPT !.timestamp = timestamp]

\* One log file of one source, each of its lines a usage of 3 tokens.
WindowScans ==
    {[claude |-> ScanSuccess(<<[path |-> [stem |-> "project", uuid |-> ""],
                                lines |-> [i \in 1..Len(stamps) |->
                                             ClaudeLineAt(stamps[i])]]>>),
      codex |-> ScanSuccess(<<>>)] :
        stamps \in BoundedSeq(BoundaryStamps, MaxWindowLines)}
    \cup
    {[claude |-> ScanSuccess(<<>>),
      codex |-> ScanSuccess(<<[path |-> FirstCodexPath,
                               lines |-> [i \in 1..Len(stamps) |->
                                            TokenCount(stamps[i], 2, 1, 0, 0)]]>>)] :
        stamps \in BoundedSeq(BoundaryStamps, MaxWindowLines)}

InitWindow ==
    /\ now \in WindowInstants
    /\ hasApi = TRUE
    /\ storage = createEmptyCache
    /\ periodCache = storage
    /\ periodCacheRef = storage
    /\ currentPeriod = "today"
    /\ currentPeriodRef = "today"
    /\ error = NoError
    /\ refreshingMap = [p \in PERIODS |-> FALSE]
    /\ refreshingSetRef = {}
    /\ inflight = [p \in PERIODS |-> <<>>]
    /\ bootPc = "init"
    /\ lastEvent = NoEvent
    /\ aggPc = "input"
    /\ aggPeriod = "none"
    /\ scan \in WindowScans
    /\ baseScan = scan
    /\ sessionSnapshots = <<>>
    /\ codexRecords = <<>>
    /\ scanRequests = <<>>
    /\ disk = <<>>
    /\ scanCall = <<>>
    /\ aggResult = <<>>

\* One call of aggregateUsage at one of these instants.
SpecWindow == InitWindow /\ [][NextAgg]_vars

\* Arguments of aggregateUsage that are none of the three periods.
OtherPeriods == {"decade", "Today", ""}

\* One call of aggregateUsage with any argument.
NextAnyPeriod == \E period \in PERIODS \cup OtherPeriods : runAggregateUsage(period)

SpecAnyPeriod == InitWindow /\ [][NextAnyPeriod]_vars

Usage(input, output, cacheRead, cacheCreate) ==
    [input_tokens |-> input, output_tokens |-> output,
     cache_read_input_tokens |-> cacheRead,
     cache_creation_input_tokens |-> cacheCreate]

\* message.usage of a line: nothing, one token, or 200 tokens of all kinds
ViewUsages == {Usage(0, 0, 0, 0), Usage(1, 0, 0, 0), Usage(100, 60, 30, 10)}

\* message.usage of a second line of the first model
SecondUsage == Usage(0, 1, 1, 0)

ClaudeUsageLine(model, usage) ==
    [json |-> TRUE, usage |-> TRUE, timestamp |-> Midnight + 1, model |-> model,
     input_tokens |-> usage.input_tokens, output_tokens |-> usage.output_tokens,
     cache_read_input_tokens |-> usage.cache_read_input_tokens,
     cache_creation_input_tokens |-> usage.cache_creation_input_tokens]

Reverse(s) == [i \in 1..Len(s) |-> s[Len(s) + 1 - i]]

\* One Claude file: a line for each model, possibly a second line for the
\* first model, in this order or in the reverse order.
ViewScans ==
    LET n == IF ViewModels < Len(RawModelNames) THEN ViewModels
             ELSE Len(RawModelNames)
        Lines(u, second) ==
            [i \in 1..n |-> ClaudeUsageLine(RawModelNames[i], u[i])]
            \o (IF second THEN <<ClaudeUsageLine(RawModelNames[1], SecondUsage)>>
                ELSE <<>>)
        File(lines) == [path |-> [stem |-> "project", uuid |-> ""], lines |-> lines]
    IN  {[claude |-> ScanSuccess(<<File(IF reversed THEN Reverse(Lines(u, second))
                                       ELSE Lines(u, second))>>),
          codex |-> ScanSuccess(<<>>)] :
            u \in [1..n -> ViewUsages], second \in BOOLEAN, reversed \in BOOLEAN}

InitView ==
    /\ now = AggNow
    /\ hasApi = TRUE
    /\ storage = createEmptyCache
    /\ periodCache = storage
    /\ periodCacheRef = storage
    /\ currentPeriod = "today"
    /\ currentPeriodRef = "today"
    /\ error = NoError
    /\ refreshingMap = [p \in PERIODS |-> FALSE]
    /\ refreshingSetRef = {}
    /\ inflight = [p \in PERIODS |-> <<>>]
    /\ bootPc = "init"
    /\ lastEvent = NoEvent
    /\ aggPc = "input"
    /\ aggPeriod = "none"
    /\ scan \in ViewScans
    /\ baseScan = scan
    /\ sessionSnapshots = <<>>
    /\ codexRecords = <<>>
    /\ scanRequests = <<>>
    /\ disk = <<>>
    /\ scanCall = <<>>
    /\ aggResult = <<>>

\* One call of aggregateUsage over the lines of up to ViewModels models.
SpecView == InitView /\ [][NextAgg]_vars

\* One Claude file of one line, a usage of one token by a model of any name.
NameScans ==
    {[claude |-> ScanSuccess(<<[path |-> [stem |-> "project", uuid |-> ""],
                                lines |-> <<ClaudeUsageLine(model,
                                                            Usage(1, 0, 0, 0))>>]>>),
      codex |-> ScanSuccess(<<>>)] : model \in ModelNameInputs}

InitNames ==
    /\ now = AggNow
    /\ hasApi = TRUE
    /\ storage = createEmptyCache
    /\ periodCache = storage
    /\ periodCacheRef = storage
    /\ currentPeriod = "today"
    /\ currentPeriodRef = "today"
    /\ error = NoError
    /\ refreshingMap = [p \in PERIODS |-> FALSE]
    /\ refreshingSetRef = {}
    /\ inflight = [p \in PERIODS |-> <<>>]
    /\ bootPc = "init"
    /\ lastEvent = NoEvent
    /\ aggPc = "input"
    /\ aggPeriod = "none"
    /\ scan \in NameScans
    /\ baseScan = scan
    /\ sessionSnapshots = <<>>
    /\ codexRecords = <<>>
    /\ scanRequests = <<>>
    /\ disk = <<>>
    /\ scanCall = <<>>
    /\ aggResult = <<>>

\* One call of aggregateUsage over a line of a model of any name.
SpecNames == InitNames /\ [][NextAgg]_vars

\* Codex lines, and a snapshot that has no timestamp.
SessionLines == CodexLines \cup {TokenCount(Undefined, 9, 9, 0, 0)}

\* Two Codex files, of one session or of two.
SessionResults ==
    {ScanSuccess(<<[path |-> FirstCodexPath, lines |-> l1],
                   [path |-> p2, lines |-> l2]>>) :
        p2 \in SecondCodexPaths,
        l1 \in BoundedSeq(SessionLines, MaxLines),
        l2 \in BoundedSeq(SessionLines, MaxLines - 1)}

InitSessions ==
    /\ now = AggNow
    /\ hasApi = TRUE
    /\ storage = createEmptyCache
    /\ periodCache = storage
    /\ periodCacheRef = storage
    /\ currentPeriod = "today"
    /\ currentPeriodRef = "today"
    /\ error = NoError
    /\ refreshingMap = [p \in PERIODS |-> FALSE]
    /\ refreshingSetRef = {}
    /\ inflight = [p \in PERIODS |-> <<>>]
    /\ bootPc = "init"
    /\ lastEvent = NoEvent
    /\ aggPc = "input"
    /\ aggPeriod = "none"
    /\ scan \in [claude : {ScanSuccess(<<>>)}, codex : SessionResults]
    /\ baseScan = scan
    /\ sessionSnapshots = <<>>
    /\ codexRecords = <<>>
    /\ scanRequests = <<>>
    /\ disk = <<>>
    /\ scanCall = <<>>
    /\ aggResult = <<>>

\* One call of aggregateUsage over the files of Codex sessions.
SpecSessions == InitSessions /\ [][NextAgg]_vars

----------------------------------------------------------------------------
(* The log scanner: scanLogFilesInRange and handleScanLogFiles *)

\* The defaults of the options of scanLogFilesInRange.
DefaultMaxFiles == 5000

DefaultMaxLinesPerFile == 10000

DefaultMaxDepth == 10

DefaultOptions ==
    [maxFiles |-> DefaultMaxFiles, maxLinesPerFile |-> DefaultMaxLinesPerFile,
     maxDepth |-> DefaultMaxDepth]

Min(a, b) == IF a < b THEN a ELSE b

\* A test that also takes the file modified at the end of the window.
isCandidateClosed(entry, startTime, endTime, maxDepth) ==
    /\ entry.depth <= maxDepth
    /\ entry.jsonl
    /\ entry.stat
    /\ ~(entry.mtime < startTime \/ entry.mtime > endTime)

\* An entry is a directory entry under the base path: depth is the depth of
\* its directory, jsonl tells a file whose name ends in ".jsonl", stat and
\* readable tell whether fs.stat and fs.readFile succeed on it.
isCandidate(entry, startTime, endTime, maxDepth) ==
    /\ entry.depth <= maxDepth
    /\ entry.jsonl
    /\ entry.stat
    /\ ~(entry.mtime < startTime \/ entry.mtime >= endTime)

\* The walk of the directories, in the order of readdir.
collectCandidates(entries, startTime, endTime, maxDepth) ==
    SelectSeq(entries, LAMBDA entry : isCandidate(entry, startTime, endTime, maxDepth))

\* A place for x after the candidates that the comparator b.mtime - a.mtime
\* does not sort after it.
RECURSIVE InsertByMtime(_, _)
InsertByMtime(sorted, x) ==
    IF sorted = <<>> THEN <<x>>
    ELSE IF Head(sorted).mtime - x.mtime < 0 THEN <<x>> \o sorted
    ELSE <<Head(sorted)>> \o InsertByMtime(Tail(sorted), x)

\* The candidates as they were collected.
sortCandidatesNotAtAll(candidates) == candidates

\* candidates.sort((a, b) => b.mtime.getTime() - a.mtime.getTime())
sortCandidates(candidates) ==
    LET RECURSIVE Sorted(_)
        Sorted(c) == IF c = <<>> THEN <<>>
                     ELSE InsertByMtime(Sorted(SubSeq(c, 1, Len(c) - 1)), c[Len(c)])
    IN  Sorted(candidates)

scanLogFilesInRange(entries, startTime, endTime, options) ==
    LET candidates ==
            sortCandidates(collectCandidates(entries, startTime, endTime,
                                             options.maxDepth))
        selectedCandidates ==
            SubSeq(candidates, 1, Min(options.maxFiles, Len(candidates)))
        read == SelectSeq(selectedCandidates, LAMBDA candidate : candidate.readable)
    IN  [files |-> [i \in 1..Len(read) |->
                      [path |-> read[i].path,
                       lines |-> SubSeq(read[i].lines, 1,
                                        Min(options.maxLinesPerFile,
                                            Len(read[i].lines))),
                       mtime |-> read[i].mtime]],
         totalMatched |-> Len(candidates),
         scannedCount |-> Len(selectedCandidates),
         truncated |-> Len(candidates) > options.maxFiles]

\* The base path exists; a Date passes through toISOString and new Date
\* unchanged.
handleScanLogFiles(entries, start, end) ==
    LET scanResult == scanLogFilesInRange(entries, start, end, DefaultOptions)
    IN  [success |-> TRUE,
         files |-> scanResult.files,
         totalMatched |-> scanResult.totalMatched,
         scannedCount |-> scanResult.scannedCount,
         truncated |-> scanResult.truncated,
         error |-> "null"]

\* Modification times at and around the bounds of the windows of AggNow.
ScanStamps ==
    {Midnight - WeekDays * MinutesPerDay - 1, Midnight - WeekDays * MinutesPerDay,
     Midnight - 1, Midnight, Midnight + 1}

PathOf(i) == [stem |-> <<"a", "b", "c", "d">>[i], uuid |-> ""]

\* A log file of one line, written when the file was last modified.
LogFile(i, mtime) ==
    [path |-> PathOf(i), jsonl |-> TRUE, depth |-> 1, stat |-> TRUE,
     readable |-> TRUE, mtime |-> mtime, lines |-> <<ClaudeLineAt(mtime)>>]

\* What entry i can be: a log file, a file of another kind, a log file that
\* cannot be read or examined, a log file too deep in the tree.
EntryKinds(i) ==
    {LogFile(i, mtime) : mtime \in ScanStamps}
    \cup {[LogFile(i, Midnight - 1) EXCEPT !.jsonl = FALSE],
          [LogFile(i, Midnight - 1) EXCEPT !.readable = FALSE],
          [LogFile(i, Midnight - 1) EXCEPT !.stat = FALSE],
          [LogFile(i, Midnight - 1) EXCEPT !.depth = DefaultMaxDepth + 1]}

Directories ==
    UNION {{entries \in [1..n -> UNION {EntryKinds(i) : i \in 1..n}] :
                \A i \in 1..n : entries[i] \in EntryKinds(i)} :
           n \in 0..MaxDiskFiles}

\* options.maxFiles of the calls
ScanCaps == (1..MaxCap) \cup {DefaultMaxFiles}

\* One call of scanLogFilesInRange over the Claude directory.
runScanLogFilesInRange(period, maxFiles) ==
    /\ aggPc = "input"
    /\ aggPc' = "done"
    /\ aggPeriod' = period
    /\ LET win == getBeijingTimeWindow(period, now)
           options == [DefaultOptions EXCEPT !.maxFiles = maxFiles]
       IN  scanCall' = [startTime |-> win.start, endTime |-> win.end,
                       options |-> options,
                       result |-> scanLogFilesInRange(disk.claude, win.start,
                                                      win.end, options)]
    /\ UNCHANGED <<scan, baseScan, sessionSnapshots, codexRecords, scanRequests,
                   disk, aggResult>>
    /\ UNCHANGED pageVars

InitScanner ==
    /\ now = AggNow
    /\ hasApi = TRUE
    /\ storage = createEmptyCache
    /\ periodCache = storage
    /\ periodCacheRef = storage
    /\ currentPeriod = "today"
    /\ currentPeriodRef = "today"
    /\ error = NoError
    /\ refreshingMap = [p \in PERIODS |-> FALSE]
    /\ refreshingSetRef = {}
    /\ inflight = [p \in PERIODS |-> <<>>]
    /\ bootPc = "init"
    /\ lastEvent = NoEvent
    /\ aggPc = "input"
    /\ aggPeriod = "none"
    /\ scan = <<>>
    /\ baseScan = <<>>
    /\ sessionSnapshots = <<>>
    /\ codexRecords = <<>>
    /\ scanRequests = <<>>
    /\ disk \in [claude : Directories, codex : {<<>>}]
    /\ scanCall = <<>>
    /\ aggResult = <<>>

NextScanner ==
    \E period \in PERIODS, maxFiles \in ScanCaps :
        runScanLogFilesInRange(period, maxFiles)

SpecScanner == InitScanner /\ [][NextScanner]_vars

\* Instants at which a log is written to: before the week window, inside
\* it, and on the present day.
DiskStamps ==
    {Midnight - WeekDays * MinutesPerDay - 1, Midnight - 2, Midnight - 1,
     Midnight + 1}

\* A log that was appended to: its lines are stamped in ascending order and
\* its mtime is not before its last line.
AppendedLogs(i) ==
    {[path |-> PathOf(i), jsonl |-> TRUE, depth |-> 1, stat |-> TRUE,
      readable |-> TRUE, mtime |-> mtime,
      lines |-> [k \in 1..Len(stamps) |-> ClaudeLineAt(stamps[k])]] :
        <<stamps, mtime>> \in
            {sm \in (BoundedSeq(DiskStamps, MaxLines) \ {<<>>}) \X DiskStamps :
                /\ \A k \in 1..(Len(sm[1]) - 1) : sm[1][k] <= sm[1][k + 1]
                /\ sm[1][Len(sm[1])] <= sm[2]}}

LogDirectories ==
    UNION {{entries \in [1..n -> UNION {AppendedLogs(i) : i \in 1..n}] :
                \A i \in 1..n : entries[i] \in AppendedLogs(i)} :
           n \in 0..MaxLogFiles}

\* One call of aggregateUsage(period) whose two calls of scanLogFiles are
\* answered by handleScanLogFiles over the log directories.
runAggregateUsageOnDisk(period) ==
    /\ aggPc = "input"
    /\ aggPc' = "done"
    /\ aggPeriod' = period
    /\ LET win == getBeijingTimeWindow(period, now)
           results == [claude |-> handleScanLogFiles(disk.claude, win.start, win.end),
                       codex |-> handleScanLogFiles(disk.codex, win.start, win.end)]
           sessions == codexSessions(results.codex, win.start, win.end)
       IN  /\ scan' = results
           /\ sessionSnapshots' = sessions
           /\ codexRecords' = codexRecordsOf(sessions)
           /\ aggResult' = aggregateUsage(period, now, results)
    /\ scanRequests' = scanLogFilesCalls(period, now)
    /\ UNCHANGED <<baseScan, disk, scanCall>>
    /\ UNCHANGED pageVars

InitDisk ==
    /\ now = AggNow
    /\ hasApi = TRUE
    /\ storage = createEmptyCache
    /\ periodCache = storage
    /\ periodCacheRef = storage
    /\ currentPeriod = "today"
    /\ currentPeriodRef = "today"
    /\ error = NoError
    /\ refreshingMap = [p \in PERIODS |-> FALSE]
    /\ refreshingSetRef = {}
    /\ inflight = [p \in PERIODS |-> <<>>]
    /\ bootPc = "init"
    /\ lastEvent = NoEvent
    /\ aggPc = "input"
    /\ aggPeriod = "none"
    /\ scan = <<>>
    /\ baseScan = <<>>
    /\ sessionSnapshots = <<>>
    /\ codexRecords = <<>>
    /\ scanRequests = <<>>
    /\ disk \in [claude : LogDirectories, codex : {<<>>}]
    /\ scanCall = <<>>
    /\ aggResult = <<>>

NextDisk == \E period \in PERIODS : runAggregateUsageOnDisk(period)

\* One call of aggregateUsage over the logs on disk.
SpecDisk == InitDisk /\ [][NextDisk]_vars

----------------------------------------------------------------------------
(* The aggregator: properties *)

\* C1: repeating cumulative token_count snapshot lines verbatim, in the same
\* file or in another file of the same session, does not change the result
\* of aggregateUsage: input, output, cache, total and recordCount are those
\* of the scan without the repeats.
RepeatsChangeNothing ==
    aggPc = "done" =>
        LET base == aggregateUsage(aggPeriod, now, baseScan)
        IN  /\ aggResult.success = base.success
            /\ aggResult.data.input = base.data.input
            /\ aggResult.data.output = base.data.output
            /\ aggResult.data.cache = base.data.cache
            /\ aggResult.data.total = base.data.total
            /\ aggResult.data.recordCount = base.data.recordCount

\* A scan with a repeated snapshot line was aggregated and counted records.
RepeatsWitness ==
    /\ aggPc = "done"
    /\ scan # baseScan
    /\ codexRecords # <<>>

\* C2: every session with an in-window snapshot whose increase is positive
\* emits one record, with cacheRead = max(0, in.cacheRead - before.cacheRead),
\* output = max(0, in.output - before.output), input = max(0, max(0,
\* in.input - before.input) - cacheRead) and cacheCreate = 0, where before is
\* the beforeWindow slot or all zero when that slot is empty.
CodexRecordFormula ==
    aggPc = "done" =>
        LET HasInWindow(state) == state.inWindow # NoSnapshot
            Expected(state) ==
                LET bInput == IF state.beforeWindow = NoSnapshot THEN 0
                              ELSE state.beforeWindow.inputTotal
                    bOutput == IF state.beforeWindow = NoSnapshot THEN 0
                               ELSE state.beforeWindow.outputTotal
                    bCache == IF state.beforeWindow = NoSnapshot THEN 0
                              ELSE state.beforeWindow.cacheReadTotal
                    cacheRead == Max0(state.inWindow.cacheReadTotal - bCache)
                IN  [timestamp |-> state.inWindow.timestamp,
                     model |-> "codex",
                     input |-> Max0(Max0(state.inWindow.inputTotal - bInput) - cacheRead),
                     output |-> Max0(state.inWindow.outputTotal - bOutput),
                     cacheRead |-> cacheRead,
                     cacheCreate |-> 0]
            Positive(record) == record.input + record.output + record.cacheRead > 0
            withIn == SelectSeq(sessionSnapshots, HasInWindow)
            expected == [i \in 1..Len(withIn) |-> Expected(withIn[i])]
        IN  codexRecords = SelectSeq(expected, Positive)

\* A session with a baseline and an in-window snapshot emitted a record whose
\* input was reduced by its cache reads.
CodexRecordWitness ==
    /\ aggPc = "done"
    /\ \E i \in 1..Len(sessionSnapshots) :
          LET state == sessionSnapshots[i]
          IN  /\ state.beforeWindow # NoSnapshot
              /\ state.inWindow # NoSnapshot
              /\ state.inWindow.cacheReadTotal > state.beforeWindow.cacheReadTotal
              /\ \E j \in 1..Len(codexRecords) :
                    /\ codexRecords[j].cacheRead > 0
                    /\ codexRecords[j].input > 0
                    /\ codexRecords[j].input
                          < state.inWindow.inputTotal - state.beforeWindow.inputTotal

\* C5: when the scanner reports success: false for the Claude or the Codex
\* source, aggregateUsage returns a failure result.
ScannerFailureFails ==
    (aggPc = "done" /\ (~scan.claude.success \/ ~scan.codex.success))
        => ~aggResult.success

\* The scanner failed for a source and aggregateUsage has returned.
ScannerFailureWitness ==
    /\ aggPc = "done"
    /\ ~scan.claude.success
    /\ scan.codex.success
    /\ aggResult.success

\* C14: no Codex session contributes a record whose total is <= 0.  A session
\* without an in-window snapshot, or whose in-window maximum exceeds its
\* baseline in no field, adds nothing to recordCount and nothing to the codex
\* model; every other session adds one record of positive total.
NoEmptyCodexRecord ==
    aggPc = "done" =>
        LET Exceeds(state) ==
                /\ state.inWindow # NoSnapshot
                /\ LET none == state.beforeWindow = NoSnapshot
                       bInput == IF none THEN 0 ELSE state.beforeWindow.inputTotal
                       bOutput == IF none THEN 0 ELSE state.beforeWindow.outputTotal
                       bCache == IF none THEN 0 ELSE state.beforeWindow.cacheReadTotal
                   IN  \/ state.inWindow.inputTotal > bInput
                       \/ state.inWindow.outputTotal > bOutput
                       \/ state.inWindow.cacheReadTotal > bCache
            contributing == SelectSeq(sessionSnapshots, Exceeds)
            data == aggResult.data
            claudeCount == Len(scanClaudeLogs(scan.claude, data.startTime, data.endTime))
            IsCodex(model) == model.name = "codex"
            codexModels == SelectSeq(data.models, IsCodex)
            Total(record) == record.input + record.output + record.cacheRead
                                + record.cacheCreate
        IN  /\ \A j \in 1..Len(codexRecords) : Total(codexRecords[j]) > 0
            /\ Len(codexRecords) = Len(contributing)
            /\ data.recordCount = claudeCount + Len(contributing)
            /\ contributing = <<>> => codexModels = <<>>
            /\ contributing # <<>> =>
                  /\ Len(codexModels) = 1
                  /\ codexModels[1].count = Len(contributing)
                  /\ codexModels[1].total =
                        SumOver([j \in 1..Len(codexRecords) |->
                                   [total |-> Total(codexRecords[j])]], "total")

\* Of two scanned sessions one has an in-window snapshot that exceeds its
\* baseline in no field and the other has no in-window snapshot: neither
\* added a record, and the result has no codex model.
NoEmptyCodexRecordWitness ==
    /\ aggPc = "done"
    /\ Len(sessionSnapshots) = 2
    /\ \E i \in 1..2 :
          /\ sessionSnapshots[i].inWindow # NoSnapshot
          /\ sessionSnapshots[i].beforeWindow # NoSnapshot
          /\ sessionSnapshots[3 - i].inWindow = NoSnapshot
          /\ sessionSnapshots[3 - i].beforeWindow # NoSnapshot
    /\ codexRecords = <<>>
    /\ \A k \in 1..Len(aggResult.data.models) :
          aggResult.data.models[k].name # "codex"

\* C12: with T0 the UTC+8 civil midnight of the instant of the call, the
\* window of today is [T0, now), of week [T0 - 7 days, T0) and of month
\* [T0 - 30 days, T0); week and month end at T0 and so hold no instant of the
\* current civil day.
WindowsOfT0 ==
    (aggPc = "done" /\ aggResult.success) =>
        LET T0 == CHOOSE t \in {Midnight - MinutesPerDay, Midnight} :
                      t <= now /\ now < t + MinutesPerDay
            data == aggResult.data
        IN  /\ (T0 + BeijingOffset) % MinutesPerDay = 0
            /\ aggPeriod = "today" =>
                   data.startTime = T0 /\ data.endTime = now
            /\ aggPeriod = "week" =>
                   data.startTime = T0 - 7 * 24 * 60 /\ data.endTime = T0
            /\ aggPeriod = "month" =>
                   data.startTime = T0 - 30 * 24 * 60 /\ data.endTime = T0
            /\ aggPeriod # "today" => data.endTime <= now

\* Five minutes into a civil day the window of week was computed: it ends at
\* the civil midnight, before the instant of the call.
WindowsWitness ==
    /\ aggPc = "done"
    /\ aggPeriod = "week"
    /\ now = AggNow
    /\ aggResult.data.endTime = Midnight
    /\ aggResult.data.endTime < now
    /\ aggResult.data.startTime = Midnight - WeekDays * MinutesPerDay

\* C13 as stated: a line is counted for a period iff start <= timestamp < end
\* of the period's window; so, for one instant of the call, a line stamped at
\* today's civil midnight T0 is counted in today and in neither week nor
\* month, a line stamped at the start of week (month) is counted in week
\* (month), and no line is counted in both today and week.
HalfOpenAtEveryInstant ==
    (aggPc = "done" /\ aggResult.success) =>
        LET T0 == CHOOSE t \in {Midnight - MinutesPerDay, Midnight} :
                      t <= now /\ now < t + MinutesPerDay
            Start(q) == CASE q = "today" -> T0
                          [] q = "week" -> T0 - 7 * 24 * 60
                          [] q = "month" -> T0 - 30 * 24 * 60
            End(q) == IF q = "today" THEN now ELSE T0
            In(ts, q) == Start(q) <= ts /\ ts < End(q)
            claude == IF scan.claude.files = <<>> THEN <<>>
                      ELSE scan.claude.files[1].lines
            codex == IF scan.codex.files = <<>> THEN <<>>
                     ELSE scan.codex.files[1].lines
            \* the two sources of the scan, each line alone
            Counted(line, q) ==
                LET alone == [f \in {1} |-> [path |-> FirstCodexPath,
                                              lines |-> <<line>>]]
                    result == IF "usage" \in DOMAIN line
                              THEN [claude |-> ScanSuccess(alone),
                                    codex |-> ScanSuccess(<<>>)]
                              ELSE [claude |-> ScanSuccess(<<>>),
                                    codex |-> ScanSuccess(alone)]
                IN  aggregateUsage(q, now, result).data.recordCount = 1
            lines == {claude[i] : i \in 1..Len(claude)}
                        \cup {codex[i] : i \in 1..Len(codex)}
        IN  /\ codex = <<>> =>
                  aggResult.data.recordCount =
                     Cardinality({i \in 1..Len(claude) :
                                     In(claude[i].timestamp, aggPeriod)})
            /\ codex # <<>> =>
                  /\ (sessionSnapshots[1].inWindow # NoSnapshot)
                        <=> \E i \in 1..Len(codex) : In(codex[i].timestamp, aggPeriod)
                  /\ (sessionSnapshots[1].beforeWindow # NoSnapshot)
                        <=> \E i \in 1..Len(codex) :
                               codex[i].timestamp < Start(aggPeriod)
            /\ \A line \in lines :
                  /\ \A q \in PERIODS : Counted(line, q) <=> In(line.timestamp, q)
                  /\ line.timestamp = T0 =>
                        /\ Counted(line, "today")
                        /\ ~Counted(line, "week")
                        /\ ~Counted(line, "month")
                  /\ line.timestamp = Start("week") => Counted(line, "week")
                  /\ line.timestamp = Start("month") => Counted(line, "month")
                  /\ ~(Counted(line, "today") /\ Counted(line, "week"))

\* C13 as the code has it: the same, except that a line stamped at T0 is
\* counted in today only by a call later than T0; for a call at T0 itself the
\* window of today is empty and the line is counted in no period.
HalfOpenAfterMidnight ==
    (aggPc = "done" /\ aggResult.success) =>
        LET T0 == CHOOSE t \in {Midnight - MinutesPerDay, Midnight} :
                      t <= now /\ now < t + MinutesPerDay
            Start(q) == CASE q = "today" -> T0
                          [] q = "week" -> T0 - 7 * 24 * 60
                          [] q = "month" -> T0 - 30 * 24 * 60
            End(q) == IF q = "today" THEN now ELSE T0
            In(ts, q) == Start(q) <= ts /\ ts < End(q)
            claude == IF scan.claude.files = <<>> THEN <<>>
                      ELSE scan.claude.files[1].lines
            codex == IF scan.codex.files = <<>> THEN <<>>
                     ELSE scan.codex.files[1].lines
            Counted(line, q) ==
                LET alone == [f \in {1} |-> [path |-> FirstCodexPath,
                                              lines |-> <<line>>]]
                    result == IF "usage" \in DOMAIN line
                              THEN [claude |-> ScanSuccess(alone),
                                    codex |-> ScanSuccess(<<>>)]
                              ELSE [claude |-> ScanSuccess(<<>>),
                                    codex |-> ScanSuccess(alone)]
                IN  aggregateUsage(q, now, result).data.recordCount = 1
            lines == {claude[i] : i \in 1..Len(claude)}
                        \cup {codex[i] : i \in 1..Len(codex)}
        IN  /\ codex = <<>> =>
                  aggResult.data.recordCount =
                     Cardinality({i \in 1..Len(claude) :
                                     In(claude[i].timestamp, aggPeriod)})
            /\ codex # <<>> =>
                  /\ (sessionSnapshots[1].inWindow # NoSnapshot)
                        <=> \E i \in 1..Len(codex) : In(codex[i].timestamp, aggPeriod)
                  /\ (sessionSnapshots[1].beforeWindow # NoSnapshot)
                        <=> \E i \in 1..Len(codex) :
                               codex[i].timestamp < Start(aggPeriod)
            /\ \A line \in lines :
                  /\ \A q \in PERIODS : Counted(line, q) <=> In(line.timestamp, q)
                  /\ line.timestamp = T0 =>
                        /\ Counted(line, "today") <=> now > T0
                        /\ ~Counted(line, "week")
                        /\ ~Counted(line, "month")
                  /\ line.timestamp = Start("week") => Counted(line, "week")
                  /\ line.timestamp = Start("month") => Counted(line, "month")
                  /\ ~(Counted(line, "today") /\ Counted(line, "week"))

\* A call after the civil midnight counted for today the one line stamped at
\* that midnight.
HalfOpenWitness ==
    /\ aggPc = "done"
    /\ aggPeriod = "today"
    /\ now > Midnight
    /\ scan.claude.files # <<>>
    /\ Len(scan.claude.files[1].lines) = 1
    /\ scan.claude.files[1].lines[1].timestamp = Midnight
    /\ aggResult.data.recordCount = 1

\* C15: in every successful result data.total is the sum of total over
\* data.models, and the total of each model is the sum of input + output +
\* cacheRead + cacheCreate over the counted records of that model.
TotalsAddUp ==
    (aggPc = "done" /\ aggResult.success) =>
        LET data == aggResult.data
            lines == IF scan.claude.files = <<>> THEN <<>>
                     ELSE scan.claude.files[1].lines
            Counted(line) ==
                data.startTime <= line.timestamp /\ line.timestamp < data.endTime
            Tokens(line) == [total |-> line.input_tokens + line.output_tokens
                                        + line.cache_read_input_tokens
                                        + line.cache_creation_input_tokens]
            RecordsOf(name) ==
                LET Rolled(line) == Counted(line)
                                      /\ normalizeModelName(line.model) = name
                    rolled == SelectSeq(lines, Rolled)
                IN  [i \in 1..Len(rolled) |-> Tokens(rolled[i])]
        IN  /\ data.total = SumOver(data.models, "total")
            /\ \A k \in 1..Len(data.models) :
                  /\ data.models[k].total =
                        SumOver(RecordsOf(data.models[k].name), "total")
                  /\ data.models[k].total =
                        data.models[k].input + data.models[k].output
                           + data.models[k].cacheRead + data.models[k].cacheCreate
                  /\ data.models[k].count = Len(RecordsOf(data.models[k].name))

\* Seven models were aggregated; the first has two records, one of them with
\* cache writes, and its total is 202.
TotalsAddUpWitness ==
    /\ aggPc = "done"
    /\ aggResult.success
    /\ aggResult.data.recordCount = 8
    /\ \E k \in 1..Len(aggResult.data.models) :
          /\ aggResult.data.models[k].name = "opus"
          /\ aggResult.data.models[k].count = 2
          /\ aggResult.data.models[k].cacheCreate = 10
          /\ aggResult.data.models[k].total = 202
    /\ aggResult.data.total > 202

\* C16: data.models is sorted by total descending, models of equal total by
\* name ascending, and it is the same sequence when the lines of the scan are
\* presented in another order (reversed, or rotated by one line).
ModelsRanked ==
    (aggPc = "done" /\ aggResult.success) =>
        LET models == aggResult.data.models
            alphabet == <<"deepseek", "gemini", "gpt-5", "haiku", "kimi", "opus",
                          "qwen", "sonnet">>
            Place(name) == CHOOSE i \in 1..Len(alphabet) : alphabet[i] = name
            lines == scan.claude.files[1].lines
            Presented(order) ==
                [scan EXCEPT !.claude.files[1].lines = order]
            rotated == IF lines = <<>> THEN lines ELSE Tail(lines) \o <<Head(lines)>>
        IN  /\ \A i, j \in 1..Len(models) : i < j =>
                  \/ models[i].total > models[j].total
                  \/ /\ models[i].total = models[j].total
                     /\ Place(models[i].name) < Place(models[j].name)
            /\ aggregateUsage(aggPeriod, now, Presented(Reverse(lines))).data.models
                  = models
            /\ aggregateUsage(aggPeriod, now, Presented(rotated)).data.models
                  = models

\* Models of equal total were ranked by name although their lines came in the
\* reverse order: sonnet's line before opus's, opus ranked before sonnet,
\* both behind a model of greater total.
ModelsRankedWitness ==
    /\ aggPc = "done"
    /\ aggResult.success
    /\ Len(aggResult.data.models) >= 3
    /\ scan.claude.files[1].lines[1].model # "claude-opus-4-20250514"
    /\ \E k \in 2..(Len(aggResult.data.models) - 1) :
          /\ aggResult.data.models[k].name = "opus"
          /\ aggResult.data.models[k + 1].name = "sonnet"
          /\ aggResult.data.models[k].total = aggResult.data.models[k + 1].total
          /\ aggResult.data.models[1].total > aggResult.data.models[k].total

\* C17: with at most 5 models of non-zero total the distribution lists
\* exactly those models in rank order and isExtremeScenario is false; with
\* more than 5 it is the top 5 in rank order followed by one Others bucket
\* that covers all remaining models, isExtremeScenario is true, and
\* data.models still lists every model of non-zero total.
TopFiveAndOthers ==
    (aggPc = "done" /\ aggResult.success) =>
        LET data == aggResult.data
            models == data.models
            distribution == data.distribution
            n == Len(models)
            lines == scan.claude.files[1].lines
            NonZeroNames ==
                {name \in {normalizeModelName(lines[i].model) : i \in 1..Len(lines)} :
                    \E i \in 1..Len(lines) :
                       /\ normalizeModelName(lines[i].model) = name
                       /\ data.startTime <= lines[i].timestamp
                       /\ lines[i].timestamp < data.endTime
                       /\ lines[i].input_tokens + lines[i].output_tokens
                            + lines[i].cache_read_input_tokens
                            + lines[i].cache_creation_input_tokens > 0}
            Round(part, whole) ==
                CHOOSE r \in 0..100 : 2 * whole * r <= 200 * part + whole
                                      /\ 200 * part + whole < 2 * whole * (r + 1)
            RestTotal == SumOver(SubSeq(models, 6, n), "total")
        IN  /\ {models[k].name : k \in 1..n} = NonZeroNames
            /\ n = Cardinality(NonZeroNames)
            /\ data.isExtremeScenario <=> n > 5
            /\ n <= 5 =>
                  /\ Len(distribution) = n
                  /\ \A k \in 1..n :
                        /\ distribution[k].name = models[k].name
                        /\ distribution[k].key = models[k].name
                        /\ distribution[k].percent = Round(models[k].total, data.total)
            /\ n > 5 =>
                  /\ Len(distribution) = 6
                  /\ \A k \in 1..5 :
                        /\ distribution[k].name = models[k].name
                        /\ distribution[k].key = models[k].name
                        /\ distribution[k].percent = Round(models[k].total, data.total)
                  /\ distribution[6].key = "others"
                  /\ distribution[6].name = OthersName(n - 5)
                  /\ distribution[6].percent = Round(RestTotal, data.total)

\* Seven models have a non-zero total: the distribution is the top five and
\* an Others bucket for the two others.
TopFiveAndOthersWitness ==
    /\ aggPc = "done"
    /\ aggResult.success
    /\ Len(aggResult.data.models) = 7
    /\ aggResult.data.isExtremeScenario
    /\ Len(aggResult.data.distribution) = 6
    /\ aggResult.data.distribution[6].key = "others"
    /\ aggResult.data.distribution[6].name = OthersName(2)
    /\ aggResult.data.distribution[6].percent > 0

\* C18: a zero-percent Others bucket is never shown: whenever the distribution
\* contains the Others entry, that entry's percent is at least 1.
OthersNeverZeroPercent ==
    (aggPc = "done" /\ aggResult.success) =>
        \A k \in 1..Len(aggResult.data.distribution) :
            aggResult.data.distribution[k].key = "others"
                => aggResult.data.distribution[k].percent >= 1

\* Five models of 200 tokens each and two of 1 token each: the Others bucket
\* of the two is in the distribution with 0 percent.
OthersZeroPercentWitness ==
    /\ aggPc = "done"
    /\ aggResult.success
    /\ aggResult.data.total = 1002
    /\ Len(aggResult.data.distribution) = 6
    /\ aggResult.data.distribution[6].key = "others"
    /\ aggResult.data.distribution[6].percent = 0

\* C19: a model whose counted records add up to a total of 0 is in neither
\* data.models nor data.distribution and is not counted in modelCount.
ZeroModelsHidden ==
    (aggPc = "done" /\ aggResult.success) =>
        LET data == aggResult.data
            lines == scan.claude.files[1].lines
            Counted(i) == data.startTime <= lines[i].timestamp
                             /\ lines[i].timestamp < data.endTime
            Named(name) == {i \in 1..Len(lines) :
                               Counted(i) /\ normalizeModelName(lines[i].model) = name}
            Spent(i) == lines[i].input_tokens + lines[i].output_tokens
                           + lines[i].cache_read_input_tokens
                           + lines[i].cache_creation_input_tokens
            names == {normalizeModelName(lines[i].model) : i \in 1..Len(lines)}
            zero == {name \in names : Named(name) # {}
                                       /\ \A i \in Named(name) : Spent(i) = 0}
        IN  /\ \A k \in 1..Len(data.models) :
                  data.models[k].name \notin zero /\ data.models[k].total > 0
            /\ \A k \in 1..Len(data.distribution) :
                  data.distribution[k].name \notin zero
            /\ data.modelCount = Cardinality({name \in names : Named(name) # {}} \ zero)
            /\ data.modelCount = Len(data.models)

\* Two of seven models have only records without tokens: both were counted
\* as records and the result lists the five others.
ZeroModelsWitness ==
    /\ aggPc = "done"
    /\ aggResult.success
    /\ aggResult.data.recordCount = 7
    /\ aggResult.data.modelCount = 5
    /\ Len(aggResult.data.distribution) = 5
    /\ \A k \in 1..5 : aggResult.data.models[k].name \notin {"opus", "sonnet"}

\* C20: aggregateUsage with a period other than today, week and month
\* returns exactly {success: false, error: 'INVALID_PERIOD'}, without a data
\* field, and calls the scanner for neither log source; with one of the three
\* periods it calls the scanner for both.
InvalidPeriodRejected ==
    aggPc = "done" =>
        IF aggPeriod \in {"today", "week", "month"}
        THEN aggResult.success /\ Len(scanRequests) = 2
        ELSE /\ aggResult = [success |-> FALSE, error |-> "INVALID_PERIOD"]
             /\ DOMAIN aggResult = {"success", "error"}
             /\ scanRequests = <<>>
             /\ sessionSnapshots = <<>>

\* aggregateUsage('decade') has returned over a scan that holds a line.
InvalidPeriodWitness ==
    /\ aggPc = "done"
    /\ aggPeriod = "decade"
    /\ scan.claude.files # <<>>
    /\ scan.claude.files[1].lines # <<>>
    /\ ~aggResult.success
    /\ scanRequests = <<>>

\* C21: a line that is no JSON text, or lacks the usage object, yields no
\* record and no error: aggregateUsage succeeds, and its result is the result
\* over the scan without that line, wherever in a file the line stands.
MalformedLinesSkipped ==
    aggPc = "done" =>
        /\ aggResult.success
        /\ aggResult = aggregateUsage(aggPeriod, now, baseScan)

\* A cut-off line stands before a counted Claude line.
MalformedLinesWitness ==
    /\ aggPc = "done"
    /\ aggPeriod = "today"
    /\ scan.claude.success
    /\ Len(scan.claude.files[1].lines) = 2
    /\ ~scan.claude.files[1].lines[1].json
    /\ scan.claude.files[1].lines[2] = ClaudeLine
    /\ aggResult.data.recordCount > 0

CandidatesBefore(i) ==
    {j \in 1..Len(disk.claude) :
        /\ isCandidate(disk.claude[j], scanCall.startTime, scanCall.endTime,
                       scanCall.options.maxDepth)
        /\ \/ disk.claude[j].mtime > disk.claude[i].mtime
           \/ disk.claude[j].mtime = disk.claude[i].mtime /\ j < i}

Returned(i) ==
    \E k \in 1..Len(scanCall.result.files) :
        scanCall.result.files[k].path = disk.claude[i].path

\* C23 as stated: the scanner returns a .jsonl file iff
\* windowStart <= mtime < windowEnd.
ReturnedIffInWindow ==
    scanCall # <<>> =>
        \A i \in 1..Len(disk.claude) :
            disk.claude[i].jsonl =>
                (Returned(i) <=>
                    /\ scanCall.startTime <= disk.claude[i].mtime
                    /\ disk.claude[i].mtime < scanCall.endTime)

\* C23: the scanner returns a .jsonl file iff windowStart <= mtime <
\* windowEnd, the file is within the depth limit, can be examined and read,
\* and fewer than maxFiles matching files sort before it; every file it
\* returns is such a file, one modified at windowStart can be returned and
\* one modified at windowEnd never is.
ReturnedIffInWindowAndKept ==
    scanCall # <<>> =>
        /\ \A i \in 1..Len(disk.claude) :
              Returned(i) <=>
                /\ disk.claude[i].jsonl
                /\ scanCall.startTime <= disk.claude[i].mtime
                /\ disk.claude[i].mtime < scanCall.endTime
                /\ disk.claude[i].depth <= scanCall.options.maxDepth
                /\ disk.claude[i].stat
                /\ disk.claude[i].readable
                /\ Cardinality(CandidatesBefore(i)) < scanCall.options.maxFiles
        /\ \A k \in 1..Len(scanCall.result.files) :
              \E i \in 1..Len(disk.claude) :
                  scanCall.result.files[k].path = disk.claude[i].path

\* Of two log files, the one modified at the start of the week window is
\* returned and the one modified at its end is not.
ReturnedAtStartWitness ==
    /\ scanCall # <<>>
    /\ aggPeriod = "week"
    /\ Len(disk.claude) = 2
    /\ disk.claude[1].mtime = scanCall.endTime
    /\ disk.claude[2].mtime = scanCall.startTime
    /\ Len(scanCall.result.files) = 1
    /\ scanCall.result.files[1].path = disk.claude[2].path
    /\ scanCall.result.totalMatched = 1

\* The entries that match the window of the call.
Matching ==
    {i \in 1..Len(disk.claude) :
        isCandidate(disk.claude[i], scanCall.startTime, scanCall.endTime,
                    scanCall.options.maxDepth)}

DescendingMtime(files) ==
    \A k \in 1..(Len(files) - 1) : files[k].mtime >= files[k + 1].mtime

\* C24 as stated: when more files match than the cap, exactly the cap most
\* recently modified matching files are returned, in descending mtime order,
\* with truncated = true and scannedCount < totalMatched; otherwise all the
\* matching files are returned, with truncated = false.
CapKeepsMostRecent ==
    scanCall # <<>> =>
        LET result == scanCall.result
            cap == scanCall.options.maxFiles
        IN  /\ DescendingMtime(result.files)
            /\ \A i \in 1..Len(disk.claude) : Returned(i) => i \in Matching
            /\ IF Cardinality(Matching) > cap
               THEN /\ Len(result.files) = cap
                    /\ \A i \in Matching, j \in Matching :
                          (Returned(i) /\ ~Returned(j)) =>
                              disk.claude[i].mtime >= disk.claude[j].mtime
                    /\ result.truncated
                    /\ result.scannedCount < result.totalMatched
               ELSE /\ \A i \in Matching : Returned(i)
                    /\ ~result.truncated

\* C24: when more files match the window than the cap, the scanner selects
\* the cap most recently modified matching files and returns those of them
\* it can read, in descending mtime order, with truncated = true and
\* scannedCount = cap < totalMatched; otherwise it returns all the matching
\* files it can read, with truncated = false and scannedCount = totalMatched.
CapKeepsMostRecentReadable ==
    scanCall # <<>> =>
        LET result == scanCall.result
            cap == scanCall.options.maxFiles
            selected == {i \in Matching : Cardinality(CandidatesBefore(i)) < cap}
        IN  /\ DescendingMtime(result.files)
            /\ \A i \in 1..Len(disk.claude) :
                  Returned(i) <=> (i \in selected /\ disk.claude[i].readable)
            /\ Len(result.files)
                  = Cardinality({i \in selected : disk.claude[i].readable})
            /\ result.totalMatched = Cardinality(Matching)
            /\ result.scannedCount = Cardinality(selected)
            /\ \A i \in selected, j \in Matching \ selected :
                  disk.claude[i].mtime >= disk.claude[j].mtime
            /\ IF Cardinality(Matching) > cap
               THEN /\ Cardinality(selected) = cap
                    /\ result.truncated
                    /\ result.scannedCount < result.totalMatched
               ELSE /\ selected = Matching
                    /\ ~result.truncated

\* Three files match and the cap is two: the oldest, met second in the walk,
\* is left out, and the two others are returned newest first.
CapWitness ==
    /\ scanCall # <<>>
    /\ scanCall.options.maxFiles = 2
    /\ Len(disk.claude) = 3
    /\ Matching = {1, 2, 3}
    /\ disk.claude[2].mtime < disk.claude[1].mtime
    /\ disk.claude[1].mtime < disk.claude[3].mtime
    /\ Len(scanCall.result.files) = 2
    /\ scanCall.result.files[1].path = disk.claude[3].path
    /\ scanCall.result.files[2].path = disk.claude[1].path
    /\ scanCall.result.truncated
    /\ scanCall.result.scannedCount = 2
    /\ scanCall.result.totalMatched = 3

\* The orders in which the elements of a sequence can stand.
Orders(s) ==
    {[i \in 1..Len(s) |-> s[p[i]]] :
        p \in {q \in [1..Len(s) -> 1..Len(s)] :
                  \A i, j \in 1..Len(s) : q[i] = q[j] => i = j}}

\* The Codex scan with its files, and the lines within each file, in
\* another order.
Reorderings(result) ==
    {[result EXCEPT !.files = files] :
        files \in UNION {Orders([i \in 1..Len(result.files) |->
                                  [result.files[i] EXCEPT !.lines = lines[i]]]) :
                            lines \in {l \in [1..Len(result.files) ->
                                                UNION {Orders(result.files[i].lines) :
                                                         i \in 1..Len(result.files)}] :
                                          \A i \in 1..Len(result.files) :
                                              l[i] \in Orders(result.files[i].lines)}}}

RecordsIn(records) == {records[i] : i \in 1..Len(records)}

\* C25: the Codex reduction is order-insensitive: every order of the files
\* and every order of the lines within them yields the same records (input,
\* output, cacheRead and timestamp), also when snapshots have equal
\* totalTokens.
CodexOrderInsensitive ==
    (aggPc = "done" /\ scan.codex.success) =>
        LET win == getBeijingTimeWindow(aggPeriod, now)
        IN  \A reordered \in Reorderings(scan.codex) :
                RecordsIn(scanCodexLogs(reordered, win.start, win.end))
                    = RecordsIn(codexRecords)

\* One session, two files of one snapshot each, the two snapshots with the
\* same totalTokens and the same timestamp: the record is that of the
\* snapshot scanned first.
CodexTieWitness ==
    /\ aggPc = "done"
    /\ aggPeriod = "today"
    /\ scan.codex.success
    /\ Len(scan.codex.files[1].lines) = 1
    /\ Len(scan.codex.files[2].lines) = 1
    /\ extractCodexSessionId(scan.codex.files[1].path)
          = extractCodexSessionId(scan.codex.files[2].path)
    /\ scan.codex.files[1].lines[1] = TokenCount(Midnight + 1, 2, 1, 0, 0)
    /\ scan.codex.files[2].lines[1] = TokenCount(Midnight + 1, 1, 2, 0, 0)
    /\ Len(codexRecords) = 1
    /\ codexRecords[1].input = 2
    /\ LET win == getBeijingTimeWindow(aggPeriod, now)
       IN  scanCodexLogs([scan.codex EXCEPT !.files = Reverse(@)],
                         win.start, win.end)[1].input = 1

\* Two log paths name one session: their names end in the same UUID, or have
\* no UUID and the same stem, letter case apart.
SameSession(p, q) ==
    IF p.uuid # "" /\ q.uuid # "" THEN toLowerCase(p.uuid) = toLowerCase(q.uuid)
    ELSE p.uuid = "" /\ q.uuid = "" /\ toLowerCase(p.stem) = toLowerCase(q.stem)

\* The snapshots with a timestamp in the files of the session of file f.
SnapshotsOfSession(f) ==
    {snapshot \in
        UNION {{parseCodexTokenSnapshot(scan.codex.files[g].lines[i]) :
                    i \in 1..Len(scan.codex.files[g].lines)} :
               g \in {h \in 1..Len(scan.codex.files) :
                         SameSession(scan.codex.files[h].path,
                                     scan.codex.files[f].path)}} :
        snapshot.timestamp # Undefined}

\* slot is null when S is empty, and else one of S with the largest totalTokens.
HoldsMaximum(slot, S) ==
    IF S = {} THEN slot = NoSnapshot
    ELSE slot \in S /\ \A snapshot \in S : snapshot.totalTokens <= slot.totalTokens

\* C26: after the scan each logical session (files whose names end in the
\* same UUID, case apart, or share the lower-cased stem) has one pair of
\* slots: beforeWindow holds a snapshot of maximal totalTokens among the
\* session's snapshots stamped before windowStart, inWindow one of maximal
\* totalTokens among those stamped in [windowStart, windowEnd); snapshots
\* stamped at or after windowEnd or without a timestamp are in neither slot;
\* a session yields at most one record.
SlotsHoldSessionMaxima ==
    (aggPc = "done" /\ scan.codex.success) =>
        LET win == getBeijingTimeWindow(aggPeriod, now)
            files == scan.codex.files
            SlotsOf(f) == {k \in 1..Len(sessionSnapshots) :
                             sessionSnapshots[k].id
                                 = extractCodexSessionId(files[f].path)}
        IN  /\ \A f \in 1..Len(files) :
                  /\ Cardinality(SlotsOf(f)) = 1
                  /\ \A g \in 1..Len(files) :
                        SameSession(files[f].path, files[g].path)
                            <=> SlotsOf(f) = SlotsOf(g)
                  /\ \A k \in SlotsOf(f) :
                        /\ HoldsMaximum(sessionSnapshots[k].beforeWindow,
                                        {snapshot \in SnapshotsOfSession(f) :
                                            snapshot.timestamp < win.start})
                        /\ HoldsMaximum(sessionSnapshots[k].inWindow,
                                        {snapshot \in SnapshotsOfSession(f) :
                                            /\ win.start <= snapshot.timestamp
                                            /\ snapshot.timestamp < win.end})
            /\ \A k \in 1..Len(sessionSnapshots) :
                  \E f \in 1..Len(files) : k \in SlotsOf(f)
            /\ Len(codexRecords) <= Len(sessionSnapshots)

\* A session split over two files whose names differ in letter case, with a
\* snapshot before the window, one inside it and one without a timestamp:
\* one pair of slots, both filled, and one record.
SlotsWitness ==
    /\ aggPc = "done"
    /\ aggPeriod = "today"
    /\ scan.codex.success
    /\ scan.codex.files[1].path.uuid = "AB12"
    /\ scan.codex.files[2].path.uuid = "ab12"
    /\ \E f \in 1..2 : \E i \in 1..Len(scan.codex.files[f].lines) :
          /\ scan.codex.files[f].lines[i].type = "token_count"
          /\ scan.codex.files[f].lines[i].json
          /\ scan.codex.files[f].lines[i].total_token_usage
          /\ scan.codex.files[f].lines[i].timestamp = Undefined
    /\ Len(sessionSnapshots) = 1
    /\ sessionSnapshots[1].beforeWindow # NoSnapshot
    /\ sessionSnapshots[1].inWindow # NoSnapshot
    /\ Len(codexRecords) = 1

\* What the scanner would return if no file were left out for its mtime.
Unpruned(entries) ==
    LET mtimes == {entries[i].mtime : i \in 1..Len(entries)}
    IN  IF entries = <<>> THEN handleScanLogFiles(entries, 0, 0)
        ELSE handleScanLogFiles(
                 entries,
                 CHOOSE t \in mtimes : \A u \in mtimes : t <= u,
                 (CHOOSE t \in mtimes : \A u \in mtimes : u <= t) + 1)

\* C29: the mtime pruning of the scanner removes no in-window record: for
\* week and month the result over the files the scanner returns for
\* [start, end) is the result of the record-level filter over all the files,
\* also when a file was appended to after the window closed.
PruningLosesNoRecord ==
    (aggPc = "done" /\ aggPeriod \in {"week", "month"}) =>
        aggResult = aggregateUsage(aggPeriod, now,
                                   [claude |-> Unpruned(disk.claude),
                                    codex |-> Unpruned(disk.codex)])

\* One log holds a line written the minute before the civil midnight and a
\* line written after it: the week scan leaves the file out, and the line of
\* the day before is not counted.
PrunedRecordWitness ==
    /\ aggPc = "done"
    /\ aggPeriod = "week"
    /\ Len(disk.claude) = 1
    /\ Len(disk.claude[1].lines) = 2
    /\ disk.claude[1].lines[1].timestamp = Midnight - 1
    /\ disk.claude[1].lines[2].timestamp = Midnight + 1
    /\ disk.claude[1].mtime = Midnight + 1
    /\ scan.claude.files = <<>>
    /\ aggResult.success
    /\ aggResult.data.recordCount = 0
    /\ aggregateUsage(aggPeriod, now,
                      [claude |-> Unpruned(disk.claude),
                       codex |-> Unpruned(disk.codex)]).data.recordCount = 1

====
